---- MODULE Spec2Model ----
(***************************************************************************)
(* Model of structured_llm.grammar: GBNFGrammarGenerator, which compiles a *)
(* JSON Schema (as produced by a Pydantic model) into GBNF grammar text.   *)
(*                                                                         *)
(* Text is modelled at character level where the code inspects characters  *)
(* (names, enum values, $ref strings): a string is a sequence of           *)
(* one-character strings.  A GBNF expression is the sequence of its        *)
(* lexical tokens, in the order the code's f-strings write them.           *)
(***************************************************************************)
EXTENDS Integers, Sequences, FiniteSets, TLC

(***************************************************************************)
(* Bounds of the model.                                                    *)
(***************************************************************************)
\* largest number of properties of a generated object schema
MaxFields == 2
\* number of repetitions of a "*" group unrolled when enumerating a language
MaxStar == 2
\* depth to which rule references are followed when enumerating a language
MaxDepth == 4

(***************************************************************************)
(* Characters and strings.                                                 *)
(***************************************************************************)
Lowers == <<"a","b","c","d","e","f","g","h","i","j","k","l","m",
            "n","o","p","q","r","s","t","u","v","w","x","y","z">>
Uppers == <<"A","B","C","D","E","F","G","H","I","J","K","L","M",
            "N","O","P","Q","R","S","T","U","V","W","X","Y","Z">>
Digits == <<"0","1","2","3","4","5","6","7","8","9">>

Range(s) == {s[i] : i \in DOMAIN s}

IsAlnum(c) == c \in Range(Lowers) \cup Range(Uppers) \cup Range(Digits)

\* str.lower() on one ASCII character
ToLower(c) ==
  IF c \in Range(Uppers)
    THEN Lowers[CHOOSE i \in DOMAIN Uppers : Uppers[i] = c]
    ELSE c

RECURSIVE SortedSeq(_)
\* the elements of a set of numbers, ascending
SortedSeq(S) ==
  IF S = {} THEN <<>>
  ELSE LET m == CHOOSE x \in S : \A y \in S : x <= y
       IN <<m>> \o SortedSeq(S \ {m})

RECURSIVE Flatten(_)
\* concatenation of a sequence of sequences ("".join)
Flatten(ss) == IF ss = <<>> THEN <<>> ELSE Head(ss) \o Flatten(Tail(ss))

RECURSIVE LStrip(_, _)
\* str.lstrip(chars): drop the leading elements that are in the set cs
LStrip(s, cs) ==
  IF s # <<>> /\ Head(s) \in cs THEN LStrip(Tail(s), cs) ELSE s

RECURSIVE RStrip(_, _)
RStrip(s, cs) ==
  IF s # <<>> /\ s[Len(s)] \in cs THEN RStrip(SubSeq(s, 1, Len(s) - 1), cs) ELSE s

\* str.strip(chars)
Strip(s, cs) == RStrip(LStrip(s, cs), cs)

\* str.replace(old, new) for a one-character old
Replace(s, old, new) ==
  Flatten([i \in DOMAIN s |-> IF s[i] = old THEN new ELSE <<s[i]>>])

RECURSIVE Split(_, _)
\* str.split(sep) for a one-character sep: always at least one part
Split(s, sep) ==
  IF \A i \in DOMAIN s : s[i] # sep
    THEN <<s>>
    ELSE LET k == CHOOSE i \in DOMAIN s :
                     s[i] = sep /\ \A j \in 1..(i - 1) : s[j] # sep
         IN <<SubSeq(s, 1, k - 1)>> \o Split(SubSeq(s, k + 1, Len(s)), sep)

RECURSIVE NatStr(_)
\* decimal digits of a natural number
NatStr(n) ==
  IF n < 10 THEN <<Digits[n + 1]>> ELSE NatStr(n \div 10) \o <<Digits[(n % 10) + 1]>>

\* str(v) / f"{v}" for an int
IntStr(n) == IF n < 0 THEN <<"-">> \o NatStr(0 - n) ELSE NatStr(n)

\* the sanitising regex and the strip/lower/fallback of _rule_name_for_model
SanitiseName(model_name) ==
  LET subbed   == [i \in DOMAIN model_name |->
                     IF IsAlnum(model_name[i]) THEN model_name[i] ELSE "-"]
      stripped == Strip(subbed, {"-"})
  IN [i \in DOMAIN stripped |-> ToLower(stripped[i])]

_rule_name_for_model(model_name) ==
  LET sanitised == SanitiseName(model_name)
  IN IF sanitised = <<>> THEN <<"o","b","j","e","c","t">> ELSE sanitised

_escape_string_for_gbnf(value) ==
  Replace(Replace(value, "\\", <<"\\", "\\">>), "\"", <<"\\", "\"">>)

(***************************************************************************)
(* GBNF tokens.  An expression is a sequence of tokens; every token is a   *)
(* record [k, v] with v a sequence of one-character strings:               *)
(*   "lit"  a quoted literal, v its raw content between the quotes         *)
(*   "ref"  a rule name                                                    *)
(*   "op"   one of ( ) ? * |                                               *)
(*   "prim" the fixed body of a preamble rule                              *)
(***************************************************************************)
Lit(chars) == [k |-> "lit", v |-> chars]
Ref(name) == [k |-> "ref", v |-> name]
Op(c) == [k |-> "op", v |-> <<c>>]
Prim(name) == [k |-> "prim", v |-> name]

NmWs == <<"w","s">>
NmTrue == <<"t","r","u","e">>
NmFalse == <<"f","a","l","s","e">>
NmNull == <<"n","u","l","l">>
NmNumber == <<"n","u","m","b","e","r">>
NmInteger == <<"i","n","t","e","g","e","r">>
NmString == <<"s","t","r","i","n","g">>
NmRoot == <<"r","o","o","t">>

Ws == Ref(NmWs)
\* the GBNF literal "\"" : one escaped double quote
QuoteLit == Lit(<<"\\", "\"">>)

\* a grammar line  name ::= body
Line(name, body) == [name |-> name, body |-> body]

\* the seven rules of the preamble, in the order of the text
_GBNF_PREAMBLE ==
  << Line(NmWs, <<Prim(NmWs)>>),
     Line(NmTrue, <<Lit(NmTrue)>>),
     Line(NmFalse, <<Lit(NmFalse)>>),
     Line(NmNull, <<Lit(NmNull)>>),
     Line(NmNumber, <<Prim(NmNumber)>>),
     Line(NmInteger, <<Prim(NmInteger)>>),
     Line(NmString, <<Prim(NmString)>>) >>

RECURSIVE JoinAlt(_)
\* " | ".join(exprs)
JoinAlt(exprs) ==
  IF exprs = <<>> THEN <<>>
  ELSE IF Len(exprs) = 1 THEN exprs[1]
  ELSE exprs[1] \o <<Op("|")>> \o JoinAlt(Tail(exprs))

\* "(" + " | ".join(exprs) + ")"
AltGroup(exprs) == <<Op("(")>> \o JoinAlt(exprs) \o <<Op(")")>>

(***************************************************************************)
(* Enum values (Python objects in schema["enum"]): a record [vk, s, n],    *)
(* vk the Python type: "str" (s its characters), "int" (n), "bool"         *)
(* (n = 1 for True), "none", or "other" (a list, a dict, ...).             *)
(***************************************************************************)
EStr(chars) == [s |-> chars, n |-> 0, vk |-> "str"]
EInt(n) == [s |-> <<>>, n |-> n, vk |-> "int"]
EBool(b) == [s |-> <<>>, n |-> IF b THEN 1 ELSE 0, vk |-> "bool"]
ENone == [s |-> <<>>, n |-> 0, vk |-> "none"]
EOther == [s |-> <<>>, n |-> 0, vk |-> "other"]

\* one iteration of the loop of _enum_rule: the choice appended for v
EnumChoice(v) ==
  CASE v.vk = "str" -> <<QuoteLit, Lit(_escape_string_for_gbnf(v.s)), QuoteLit>>
    [] v.vk = "bool" -> IF v.n = 1 THEN <<Ref(NmTrue)>> ELSE <<Ref(NmFalse)>>
    [] v.vk = "int" -> <<Lit(IntStr(v.n))>>
    [] v.vk = "none" -> <<Ref(NmNull)>>

\* _enum_rule: [ok, expr]; ok = FALSE when the loop raises on a value
_enum_rule(values) ==
  IF \E i \in DOMAIN values : values[i].vk = "other"
    THEN [ok |-> FALSE, expr |-> <<>>]
    ELSE [ok |-> TRUE,
          expr |-> AltGroup([i \in DOMAIN values |-> EnumChoice(values[i])])]

\* the array expression without the "?" after the group of items
ArrayExprNonEmpty(item_expr) ==
  <<Lit(<<"[">>), Ws, Op("(")>> \o item_expr
    \o <<Op("("), Ws, Lit(<<",">>), Ws>> \o item_expr \o <<Op(")"), Op("*")>>
    \o <<Op(")"), Ws, Lit(<<"]">>)>>

\* the expression returned by _array_rule for a compiled item expression
ArrayExpr(item_expr) ==
  <<Lit(<<"[">>), Ws, Op("(")>> \o item_expr
    \o <<Op("("), Ws, Lit(<<",">>), Ws>> \o item_expr \o <<Op(")"), Op("*")>>
    \o <<Op(")"), Op("?"), Ws, Lit(<<"]">>)>>

\* "\"" "key" "\"" ws ":" ws value : a required pair
KeyValue(field_name, value_expr) ==
  <<QuoteLit, Lit(_escape_string_for_gbnf(field_name)), QuoteLit,
    Ws, Lit(<<":">>), Ws>> \o value_expr

\* (ws "," ws "\"" "key" "\"" ws ":" ws value)? : an optional pair
OptPair(field_name, value_expr) ==
  <<Op("("), Ws, Lit(<<",">>), Ws>> \o KeyValue(field_name, value_expr)
    \o <<Op(")"), Op("?")>>

EmptyObjectExpr == <<Lit(<<"{">>), Ws, Lit(<<"}">>)>>

\* the body built when req_fields is not empty; pairs holds the required
\* pairs, then the optional ones
ObjectBodyReq(nreq, pairs) ==
  <<Lit(<<"{">>), Ws>> \o pairs[1]
    \o Flatten([j \in 1..(nreq - 1) |->
                  <<Ws, Lit(<<",">>), Ws>> \o pairs[j + 1]])
    \o Flatten([j \in 1..(Len(pairs) - nreq) |-> pairs[nreq + j]])
    \o <<Ws, Lit(<<"}">>)>>

\* the body built when there is no required field: the first optional
\* field without its comma, the other optional pairs nested in its group
ObjectBodyOpt(first_name, first_expr, pairs) ==
  <<Lit(<<"{">>), Ws, Op("(")>> \o KeyValue(first_name, first_expr)
    \o Flatten([j \in 1..(Len(pairs) - 1) |-> pairs[j + 1]])
    \o <<Op(")"), Op("?"), Ws, Lit(<<"}">>)>>

(***************************************************************************)
(* JSON Schema nodes (Python dicts).  A node is a record; has is the set   *)
(* of keys present in the dict, the other fields hold the values of those  *)
(* keys.  properties and $defs are ordered (dicts keep insertion order):   *)
(* sequences of [name, schema].  A $ref value is a string.                 *)
(***************************************************************************)
Node0 ==
  [has |-> {}, ref |-> <<>>, anyOf |-> <<>>, type |-> "", enum |-> <<>>,
   items |-> <<>>, properties |-> <<>>, required |-> <<>>]

TypeNode(ty) == [Node0 EXCEPT !.has = {"type"}, !.type = ty]
EnumNode(ty, values) ==
  [Node0 EXCEPT !.has = {"type", "enum"}, !.type = ty, !.enum = values]
UntypedEnumNode(values) == [Node0 EXCEPT !.has = {"enum"}, !.enum = values]
ArrayNode(item) ==
  [Node0 EXCEPT !.has = {"type", "items"}, !.type = "array", !.items = <<item>>]
AnyOfNode(variants) == [Node0 EXCEPT !.has = {"anyOf"}, !.anyOf = variants]
RefNode(ref) == [Node0 EXCEPT !.has = {"$ref"}, !.ref = ref]
Field(name, schema) == [name |-> name, schema |-> schema]
ObjectNode(props, required) ==
  [Node0 EXCEPT !.has = {"type", "properties", "required"}, !.type = "object",
                !.properties = props, !.required = required]

\* the string "#/$defs/<name>"
RefTo(name) == <<"#","/","$","d","e","f","s","/">> \o name

\* what model.model_json_schema() returns: the root dict and its "$defs"
Schema(root, defs) == [root |-> root, defs |-> defs]

\* dict.get(key) on an ordered dict of [name, schema]: <<>> for None
DictGet(d, key) ==
  IF \E j \in DOMAIN d : d[j].name = key
    THEN <<d[CHOOSE j \in DOMAIN d : d[j].name = key].schema>>
    ELSE <<>>

\* schema.get("type")
TypeOf(node) == IF "type" \in node.has THEN node.type ELSE ""

\* [k for k in properties if k in required] and its complement
SelectFields(props, required, want) ==
  LET keep(j) == (props[j].name \in Range(required)) = want
      F[j \in 0..Len(props)] ==
        IF j = 0 THEN <<>>
        ELSE IF keep(j) THEN Append(F[j - 1], props[j]) ELSE F[j - 1]
  IN F[Len(props)]

ReqFields(node) == SelectFields(node.properties, node.required, TRUE)
OptFields(node) == SelectFields(node.properties, node.required, FALSE)

(***************************************************************************)
(* The models compiled: what model_json_schema() returns for them.         *)
(***************************************************************************)
StringT == TypeNode("string")
IntegerT == TypeNode("integer")
NullT == TypeNode("null")
FA == <<"a">>
FB == <<"b">>
FC == <<"c">>
FieldNames == <<FA, FB, FC, <<"d">>, <<"e">>>>

\* {t: str | None, d: str}
EventModel ==
  Schema(ObjectNode(<<Field(<<"t">>, AnyOfNode(<<StringT, NullT>>)),
                      Field(<<"d">>, StringT)>>, <<<<"t">>, <<"d">>>>), <<>>)
\* {s: Literal["a", "b"]}
StrEnumModel ==
  Schema(ObjectNode(<<Field(<<"s">>, EnumNode("string", <<EStr(FA), EStr(FB)>>))>>,
                    <<<<"s">>>>), <<>>)
\* {n: Literal[1, 2]}
IntEnumModel ==
  Schema(ObjectNode(<<Field(<<"n">>, EnumNode("integer", <<EInt(1), EInt(2)>>))>>,
                    <<<<"n">>>>), <<>>)
\* {e: Literal["a", 1, True, None]}
MixedEnumModel ==
  Schema(ObjectNode(<<Field(<<"e">>,
                        UntypedEnumNode(<<EStr(FA), EInt(1), EBool(TRUE), ENone>>))>>,
                    <<<<"e">>>>), <<>>)
\* a string field whose enum lists no value
EmptyEnumModel ==
  Schema(ObjectNode(<<Field(<<"s">>, EnumNode("string", <<>>))>>, <<<<"s">>>>), <<>>)
\* class N: v: int; next: N | None = None   (the root is the $ref itself)
SelfRefModel ==
  Schema(RefNode(RefTo(<<"N">>)),
         <<Field(<<"N">>,
             ObjectNode(<<Field(<<"v">>, IntegerT),
                          Field(<<"x">>, AnyOfNode(<<RefNode(RefTo(<<"N">>)), NullT>>))>>,
                        <<<<"v">>>>))>>)
\* A and B refer to each other
MutualModel ==
  Schema(ObjectNode(<<Field(<<"x">>, RefNode(RefTo(<<"A">>)))>>, <<<<"x">>>>),
         <<Field(<<"A">>, ObjectNode(<<Field(FB, RefNode(RefTo(<<"B">>)))>>, <<>>)),
           Field(<<"B">>, ObjectNode(<<Field(FA, RefNode(RefTo(<<"A">>)))>>, <<>>))>>)
\* two definitions, A_ and A, whose names sanitise to the same identifier
CollideModel ==
  Schema(ObjectNode(<<Field(<<"p">>, RefNode(RefTo(<<"A","_">>))),
                      Field(<<"q">>, RefNode(RefTo(<<"A">>)))>>,
                    <<<<"p">>, <<"q">>>>),
         <<Field(<<"A","_">>, ObjectNode(<<Field(<<"x">>, StringT)>>, <<<<"x">>>>)),
           Field(<<"A">>, ObjectNode(<<Field(<<"y">>, IntegerT)>>, <<<<"y">>>>))>>)
\* a nested model class named Root
RootNameModel ==
  Schema(ObjectNode(<<Field(<<"r">>, RefNode(RefTo(<<"R","o","o","t">>)))>>,
                    <<<<"r">>>>),
         <<Field(<<"R","o","o","t">>,
             ObjectNode(<<Field(<<"x">>, StringT)>>, <<<<"x">>>>))>>)
\* {a: str = "", b: str}: the optional field is declared first
OptFirstModel ==
  Schema(ObjectNode(<<Field(FA, StringT), Field(FB, StringT)>>, <<FB>>), <<>>)
\* {g: list[str]}
TagsModel ==
  Schema(ObjectNode(<<Field(<<"g">>, ArrayNode(StringT))>>, <<<<"g">>>>), <<>>)
\* {u: Any}: the field's schema is the empty dict
UntypedModel ==
  Schema(ObjectNode(<<Field(<<"u">>, Node0)>>, <<<<"u">>>>), <<>>)

\* RootModel[list[str]]: the root is the array itself
ListModel == Schema(ArrayNode(StringT), <<>>)

\* {g: list}: an array whose schema has no "items"
UntypedArrayModel ==
  Schema(ObjectNode(<<Field(<<"g">>, TypeNode("array"))>>, <<<<"g">>>>), <<>>)
\* {o: dict}: an object whose schema has no "properties"
FreeObjectModel ==
  Schema(ObjectNode(<<Field(<<"o">>, TypeNode("object"))>>, <<<<"o">>>>), <<>>)
\* a $ref to a definition that $defs does not have
MissingRefModel ==
  Schema(ObjectNode(<<Field(<<"r">>, RefNode(RefTo(<<"M">>)))>>, <<<<"r">>>>), <<>>)
\* a $ref that is not of the form #/$defs/Name
MalformedRefModel ==
  Schema(ObjectNode(<<Field(<<"r">>, RefNode(<<"M">>))>>, <<<<"r">>>>),
         <<Field(<<"M">>, StringT)>>)
\* an enum with a value that is a list
NonScalarEnumModel ==
  Schema(ObjectNode(<<Field(<<"e">>, UntypedEnumNode(<<EStr(FA), EOther>>))>>,
                    <<<<"e">>>>), <<>>)

UnsupportedModels ==
  {UntypedModel, UntypedArrayModel, FreeObjectModel, MissingRefModel,
   MalformedRefModel, NonScalarEnumModel}

FixedModels ==
  {EventModel, ListModel, StrEnumModel, IntEnumModel, MixedEnumModel, EmptyEnumModel,
   SelfRefModel, MutualModel, CollideModel, RootNameModel, OptFirstModel,
   TagsModel, UntypedModel}

\* the value schemas of the generated object models
ValueSchemas ==
  {StringT, IntegerT, AnyOfNode(<<StringT, NullT>>),
   ArrayNode(StringT), ArrayNode(IntegerT), TypeNode("array")}

\* the names of the fields chosen as required, in declared order
RequiredOf(k, ch) ==
  LET F[j \in 0..k] ==
        IF j = 0 THEN <<>>
        ELSE IF ch[j][2] THEN Append(F[j - 1], FieldNames[j]) ELSE F[j - 1]
  IN F[k]

\* every object schema with k fields a, b, ...: each field has one of the
\* value schemas and is required or optional
ObjectModelsOf(k) ==
  { Schema(ObjectNode([j \in 1..k |-> Field(FieldNames[j], ch[j][1])],
                      RequiredOf(k, ch)), <<>>)
      : ch \in [1..k -> ValueSchemas \X BOOLEAN] }

GenModels == UNION {ObjectModelsOf(k) : k \in 0..MaxFields}

(***************************************************************************)
(* State.                                                                  *)
(*                                                                         *)
(* A GBNFGrammarGenerator instance has the attributes _extra_rules and     *)
(* _defs, bound by generate().  _extra_rules is bound to a dict object:    *)
(* heap holds the dict objects (ordered name -> body), extra_rules[i] is   *)
(* the object the attribute of instance i refers to (0: not yet bound).    *)
(* Each thread runs generate() as a stack of frames, one step at a time.   *)
(***************************************************************************)
VARIABLES
  heap,        \* dict object -> its items, in insertion order
  extra_rules, \* instance -> dict object bound to self._extra_rules
  defs,        \* instance -> value of self._defs
  stack,       \* thread -> call stack (last element is the running frame)
  ret,         \* thread -> value returned by the call that just returned
  call,        \* thread -> [inst, model] of its generate() call
  entered,     \* thread -> names whose definition body this call compiled
  outcome,     \* thread -> how its last generate() call ended
  mem,         \* an earlier call of the run: [inst, model, outcome]
  client,      \* the LlamaCppClient: [http, base_url], http the state of
               \* its httpx.Client ("none" before the client is created)
  llm,         \* whether the StructuredLLM has been constructed
  op,          \* thread -> the library call it makes (name, arguments)
  sent,        \* thread -> the HTTP requests its call has sent, in order
  result,      \* thread -> how its library call ended
  clock,       \* the value time.time() returns, in ticks
  limiter,     \* the CalendarMinuteRateLimiter: its three attributes
  calls        \* the wait_if_needed() calls that returned: how many per
               \* calendar minute, and the times of the last one

\* the rate limiter and the clock
rate == <<clock, limiter, calls>>

\* the state outside the grammar generator
api == <<client, llm, op, sent, result, rate>>

\* the variables of the grammar generators and their callers
gram == <<heap, extra_rules, defs, stack, ret, call, entered, outcome, mem>>
vars == <<heap, extra_rules, defs, stack, ret, call, entered, outcome, mem, api>>

Instances == {1, 2}
Threads == {1, 2}
DictIds == 1..(Cardinality(Instances) + Cardinality(Threads))

\* deepest call stack before the interpreter raises RecursionError
MaxRecursion == 12

NoErr == [type |-> "", what |-> "", at |-> <<>>]
GrammarGenerationError(what, at) ==
  [type |-> "GrammarGenerationError", what |-> what, at |-> at]
RuntimeError(what) == [type |-> "RuntimeError", what |-> what, at |-> <<>>]
RecursionError == [type |-> "RecursionError", what |-> "", at |-> <<>>]

NoOutcome == [kind |-> "none", grammar |-> <<>>, err |-> NoErr]
Returned(grammar) == [kind |-> "return", grammar |-> grammar, err |-> NoErr]
Raised(err) == [kind |-> "raise", grammar |-> <<>>, err |-> err]

NoCall == [inst |-> 0, model |-> Schema(Node0, <<>>)]
NoMem == [outcome |-> NoOutcome, inst |-> 0, model |-> Schema(Node0, <<>>)]

Frame0 ==
  [i |-> 0, n |-> 0, node |-> Node0, fn |-> "", pc |-> "", rn |-> <<>>,
   acc |-> <<>>, def |-> Node0, safe |-> <<>>, lines |-> <<>>, dict |-> 0]

\* a call of _schema_to_rule(node, rule_name)
S2R(node, rn) ==
  [Frame0 EXCEPT !.fn = "_schema_to_rule", !.pc = "start", !.node = node, !.rn = rn]

Running(t) == stack[t] # <<>>
Top(t) == stack[t][Len(stack[t])]
Front(s) == SubSeq(s, 1, Len(s) - 1)
At(t, fn, pc) == Running(t) /\ Top(t).fn = fn /\ Top(t).pc = pc

\* the dict objects something still refers to
Referenced(er, st) ==
  {er[i] : i \in Instances}
    \cup {st[t][1].dict : t \in {u \in Threads : st[u] # <<>>}}

(***************************************************************************)
(* Python values outside the generator: what json.loads returns, what a    *)
(* request body holds, the field values of a model instance.  A value is   *)
(* a record [t, s, n, xs]: t the type, s the characters of a str (or the   *)
(* name of an enum member), n the number of an int, float or bool, xs the  *)
(* elements of a list or the items of a dict, each [name, body], in        *)
(* insertion order.  A float is written by its integer value; "nan" is     *)
(* float('nan').                                                           *)
(***************************************************************************)
PNone == [s |-> <<>>, n |-> 0, t |-> "none", xs |-> <<>>]
PStr(chars) == [s |-> chars, n |-> 0, t |-> "str", xs |-> <<>>]
PInt(n) == [s |-> <<>>, n |-> n, t |-> "int", xs |-> <<>>]
PBool(b) == [s |-> <<>>, n |-> IF b THEN 1 ELSE 0, t |-> "bool", xs |-> <<>>]
PFloat(n) == [s |-> <<>>, n |-> n, t |-> "float", xs |-> <<>>]
PNaN == [s |-> <<>>, n |-> 0, t |-> "nan", xs |-> <<>>]
PList(xs) == [s |-> <<>>, n |-> 0, t |-> "list", xs |-> xs]
PDict(items) == [s |-> <<>>, n |-> 0, t |-> "dict", xs |-> items]
\* a member of an enum.Enum class: its name and its value
PEnum(member, value) == [s |-> <<member>>, n |-> 0, t |-> "enum", xs |-> value]
\* a grammar text: a str, kept as its lines
PGrammar(g) == [s |-> <<>>, n |-> 0, t |-> "str", xs |-> g]

\* a Pydantic model class: its JSON schema, its fields and its
\* after-validator
ModelClass(schema, fields, after) ==
  [schema |-> schema, fields |-> fields, after |-> after]
NoModel == ModelClass(Schema(Node0, <<>>), <<>>, "")

\* the exceptions of the library and of Python, as [type, what, at]
LlamaCppClientError(what) ==
  [type |-> "LlamaCppClientError", what |-> what, at |-> <<>>]
ValidationError(what, prefix) ==
  [type |-> "ValidationError", what |-> what, at |-> prefix]
ServerConfigurationError(what) ==
  [type |-> "ServerConfigurationError", what |-> what, at |-> <<>>]
TypeError == [type |-> "TypeError", what |-> "", at |-> <<>>]
AttributeError == [type |-> "AttributeError", what |-> "", at |-> <<>>]
ClosedClientError == RuntimeError("the client has been closed")

\* what comes back for an HTTP request: a response (status, body: JSON or
\* not, and the value of the JSON) or the exception httpx raises
Response(status, json, data) ==
  [kind |-> "response", status |-> status, json |-> json, data |-> data]
HttpxError(kind) == [kind |-> kind, status |-> 0, json |-> FALSE, data |-> PNone]
NoReply == HttpxError("")

NoClient == [http |-> "none", base_url |-> <<>>]

\* a library call: its name, its arguments and what came back for the
\* HTTP requests it made
NoOp ==
  [value |-> PNone, name |-> "", model |-> NoModel, text |-> <<>>,
   extra |-> <<>>, temperature |-> PNone, max_tokens |-> 0, url |-> <<>>,
   verify |-> FALSE, reply |-> NoReply, was |-> ""]
\* how a library call ended
NoResult == [value |-> PNone, kind |-> "none", err |-> NoErr]
Gave(value) == [value |-> value, kind |-> "return", err |-> NoErr]
Threw(err) == [value |-> PNone, kind |-> "raise", err |-> err]

\* ticks of the clock in a calendar minute, the last tick of a run and the
\* largest requests_per_minute
TicksPerMinute == 2
MaxClock == 7
MaxRate == 2

\* int(now // 60)
Minute(now) == now \div TicksPerMinute

\* no CalendarMinuteRateLimiter yet
NoLimiter == [requests_per_minute |-> 0, current_minute |-> 0, request_count |-> 0]
NoCalls ==
  [returned |-> [m \in 0..Minute(MaxClock) |-> 0], entry |-> 0, exit |-> 0,
   limited |-> FALSE]

Init ==
  /\ client = NoClient
  /\ llm = "none"
  /\ op = [t \in Threads |-> NoOp]
  /\ sent = [t \in Threads |-> <<>>]
  /\ result = [t \in Threads |-> NoResult]
  /\ heap = [d \in DictIds |-> <<>>]
  /\ extra_rules = [i \in Instances |-> 0]
  /\ defs = [i \in Instances |-> <<>>]
  /\ stack = [t \in Threads |-> <<>>]
  /\ ret = [t \in Threads |-> <<>>]
  /\ call = [t \in Threads |-> NoCall]
  /\ entered = [t \in Threads |-> <<>>]
  /\ outcome = [t \in Threads |-> NoOutcome]
  /\ mem = NoMem
  /\ clock = 0
  /\ limiter = NoLimiter
  /\ calls = NoCalls

(***************************************************************************)
(* Control flow of one thread.                                             *)
(***************************************************************************)
\* an exception leaves every frame of the call: nothing on the path catches it
Raise(t, err) ==
  /\ stack' = [stack EXCEPT ![t] = <<>>]
  /\ ret' = [ret EXCEPT ![t] = <<>>]
  /\ outcome' = [outcome EXCEPT ![t] = Raised(err)]

\* the running frame continues as frame
Goto(t, frame) ==
  /\ stack' = [stack EXCEPT ![t][Len(stack[t])] = frame]
  /\ ret' = [ret EXCEPT ![t] = <<>>]
  /\ UNCHANGED outcome

\* the running frame, continuing as caller, calls callee
Call(t, caller, callee) ==
  IF Len(stack[t]) >= MaxRecursion
    THEN Raise(t, RecursionError)
    ELSE /\ stack' = [stack EXCEPT ![t] = Append(Append(Front(stack[t]), caller), callee)]
         /\ ret' = [ret EXCEPT ![t] = <<>>]
         /\ UNCHANGED outcome

\* the running frame returns value to its caller
Return(t, value) ==
  /\ stack' = [stack EXCEPT ![t] = Front(stack[t])]
  /\ ret' = [ret EXCEPT ![t] = value]
  /\ UNCHANGED outcome

(***************************************************************************)
(* dict operations on the items of a dict object                           *)
(***************************************************************************)
Keys(items) == {items[j].name : j \in DOMAIN items}

\* d[name] = body: a new key is appended, an existing key keeps its place
DictSet(items, name, body) ==
  IF name \in Keys(items)
    THEN [j \in DOMAIN items |->
            IF items[j].name = name THEN Line(name, body) ELSE items[j]]
    ELSE Append(items, Line(name, body))

\* the heap after dropping the items of the dict objects nothing refers to
Collect(h, er, st) ==
  [d \in DictIds |-> IF d \in Referenced(er, st) THEN h[d] ELSE <<>>]

(***************************************************************************)
(* generate(model)                                                         *)
(***************************************************************************)
\* the dict object bound by the reset: a new one
NewDict == CHOOSE d \in DictIds \ Referenced(extra_rules, stack) :
             \A e \in DictIds \ Referenced(extra_rules, stack) : d <= e

\* generate with the dict of helper rules created once per instance and
\* kept from call to call
generate_keeps_rules(t, i, m) ==
  /\ ~Running(t)
  /\ call' = [call EXCEPT ![t] = [inst |-> i, model |-> m]]
  /\ entered' = [entered EXCEPT ![t] = <<>>]
  /\ outcome' = [outcome EXCEPT ![t] = NoOutcome]
  /\ ret' = [ret EXCEPT ![t] = <<>>]
  /\ stack' = [stack EXCEPT ![t] =
                 <<[Frame0 EXCEPT !.fn = "generate", !.pc = "schema"]>>]
  /\ extra_rules' = [extra_rules EXCEPT ![i] =
                       IF extra_rules[i] = 0 THEN NewDict ELSE extra_rules[i]]
  /\ UNCHANGED <<heap, defs, mem, api>>

\* the call, and "Reset per-call state": self._extra_rules = {}
generate(t, i, m) ==
  /\ ~Running(t)
  /\ call' = [call EXCEPT ![t] = [inst |-> i, model |-> m]]
  /\ entered' = [entered EXCEPT ![t] = <<>>]
  /\ outcome' = [outcome EXCEPT ![t] = NoOutcome]
  /\ ret' = [ret EXCEPT ![t] = <<>>]
  /\ stack' = [stack EXCEPT ![t] =
                 <<[Frame0 EXCEPT !.fn = "generate", !.pc = "schema"]>>]
  /\ extra_rules' = [extra_rules EXCEPT ![i] = NewDict]
  /\ heap' = Collect([heap EXCEPT ![NewDict] = <<>>], extra_rules', stack')
  /\ UNCHANGED <<defs, mem, api>>

\* schema = model.model_json_schema(); self._defs = schema.get("$defs", {});
\* the call of _schema_to_rule(schema, "root")
generate_schema(t) ==
  /\ At(t, "generate", "schema")
  /\ defs' = [defs EXCEPT ![call[t].inst] = call[t].model.defs]
  /\ Call(t, [Top(t) EXCEPT !.pc = "root"], S2R(call[t].model.root, NmRoot))
  /\ UNCHANGED <<heap, extra_rules, call, entered, mem, api>>

\* root_rule is returned; lines = [preamble]; the for loop over
\* self._extra_rules.items() starts on the dict object bound now
generate_lines(t) ==
  /\ At(t, "generate", "root")
  /\ LET d == extra_rules[call[t].inst]
     IN Goto(t, [Top(t) EXCEPT !.pc = "emit", !.acc = ret[t],
                               !.lines = _GBNF_PREAMBLE,
                               !.dict = d, !.n = Len(heap[d]), !.i = 1])
  /\ UNCHANGED <<heap, extra_rules, defs, call, entered, mem, api>>

\* the grammar text: the lines, then the root line
GrammarText(lines, root_rule) == Append(lines, Line(NmRoot, root_rule))

\* one step of the for loop: the iterator raises when the dict changed
\* size, yields the next item, or is exhausted and generate returns
generate_emit(t) ==
  /\ At(t, "generate", "emit")
  /\ LET f == Top(t)
         items == heap[f.dict]
     IN IF Len(items) # f.n
          THEN /\ Raise(t, RuntimeError("dictionary changed size during iteration"))
               /\ heap' = Collect(heap, extra_rules, stack')
          ELSE IF f.i <= f.n
            THEN /\ Goto(t, [f EXCEPT !.lines = Append(f.lines, items[f.i]),
                                      !.i = f.i + 1])
                 /\ UNCHANGED heap
            ELSE /\ stack' = [stack EXCEPT ![t] = <<>>]
                 /\ ret' = [ret EXCEPT ![t] = <<>>]
                 /\ outcome' = [outcome EXCEPT ![t] =
                                  Returned(GrammarText(f.lines, f.acc))]
                 /\ heap' = Collect(heap, extra_rules, stack')
  /\ UNCHANGED <<extra_rules, defs, call, entered, mem, api>>

(***************************************************************************)
(* _schema_to_rule(schema, rule_name): the branch taken, in the order of   *)
(* the tests of the code                                                   *)
(***************************************************************************)
Branch(node) ==
  IF "$ref" \in node.has THEN "$ref"
  ELSE IF "anyOf" \in node.has THEN "anyOf"
  ELSE IF TypeOf(node) = "string"
    THEN (IF "enum" \in node.has THEN "enum" ELSE "string")
  ELSE IF TypeOf(node) \in {"integer", "number", "boolean", "null", "array"}
    THEN TypeOf(node)
  ELSE IF TypeOf(node) = "object" \/ "properties" \in node.has THEN "object"
  ELSE IF "enum" \in node.has THEN "enum"
  ELSE "unsupported"

BooleanExpr == <<Op("("), Ref(NmTrue), Op("|"), Ref(NmFalse), Op(")")>>

\* the expression of the scalar branches
ScalarExpr(b) ==
  CASE b = "string" -> <<Ref(NmString)>>
    [] b = "integer" -> <<Ref(NmInteger)>>
    [] b = "number" -> <<Ref(NmNumber)>>
    [] b = "boolean" -> BooleanExpr
    [] b = "null" -> <<Ref(NmNull)>>

_schema_to_rule(t) ==
  /\ At(t, "_schema_to_rule", "start")
  /\ LET f == Top(t)
         b == Branch(f.node)
     IN CASE b = "$ref" -> Goto(t, [f EXCEPT !.fn = "_resolve_ref"])
          [] b = "anyOf" -> Goto(t, [f EXCEPT !.fn = "_handle_any_of"])
          [] b = "array" -> Goto(t, [f EXCEPT !.fn = "_array_rule"])
          [] b = "object" -> Goto(t, [f EXCEPT !.fn = "_object_rule"])
          [] b = "enum" ->
               IF _enum_rule(f.node.enum).ok
                 THEN Return(t, _enum_rule(f.node.enum).expr)
                 ELSE Raise(t, GrammarGenerationError("enum value", <<>>))
          [] b = "unsupported" ->
               Raise(t, GrammarGenerationError("unsupported schema node", f.rn))
          [] OTHER -> Return(t, ScalarExpr(b))
  /\ UNCHANGED <<heap, extra_rules, defs, call, entered, mem, api>>

(***************************************************************************)
(* _resolve_ref(ref, rule_name)                                            *)
(***************************************************************************)
DefsKey == <<"$","d","e","f","s">>

\* parts = ref.lstrip("#/").split("/")
RefParts(ref) == Split(LStrip(ref, {"#", "/"}), "/")

\* the parse of ref and the lookup of the definition in self._defs
_resolve_ref_lookup(t) ==
  /\ At(t, "_resolve_ref", "start")
  /\ LET f == Top(t)
         parts == RefParts(f.node.ref)
     IN IF Len(parts) # 2 \/ parts[1] # DefsKey
          THEN Raise(t, GrammarGenerationError("cannot resolve $ref", <<>>))
          ELSE LET def_schema == DictGet(defs[call[t].inst], parts[2])
               IN IF def_schema = <<>>
                    THEN Raise(t, GrammarGenerationError("$ref not found", <<>>))
                    ELSE Goto(t, [f EXCEPT !.pc = "check", !.def = def_schema[1],
                                           !.safe = _rule_name_for_model(parts[2])])
  /\ UNCHANGED <<heap, extra_rules, defs, call, entered, mem, api>>

\* the test of _resolve_ref never finding the name
_resolve_ref_check_not_found(t) ==
  /\ At(t, "_resolve_ref", "check")
  /\ Goto(t, [Top(t) EXCEPT !.pc = "reserve"])
  /\ UNCHANGED <<heap, extra_rules, defs, call, entered, mem, api>>

\* if safe_name not in self._extra_rules
_resolve_ref_check(t) ==
  /\ At(t, "_resolve_ref", "check")
  /\ LET f == Top(t)
     IN IF f.safe \notin Keys(heap[extra_rules[call[t].inst]])
          THEN Goto(t, [f EXCEPT !.pc = "reserve"])
          ELSE Return(t, <<Ref(f.safe)>>)
  /\ UNCHANGED <<heap, extra_rules, defs, call, entered, mem, api>>

\* the body stored before the definition is compiled
Placeholder == <<Ref(NmNull)>>

\* self._extra_rules[safe_name] = "null", then the recursive call
_resolve_ref_reserve(t) ==
  /\ At(t, "_resolve_ref", "reserve")
  /\ LET f == Top(t)
         d == extra_rules[call[t].inst]
     IN /\ heap' = [heap EXCEPT ![d] = DictSet(heap[d], f.safe, Placeholder)]
        /\ Call(t, [f EXCEPT !.pc = "store"], S2R(f.def, f.safe))
        /\ entered' = [entered EXCEPT ![t] =
                         Append(entered[t], RefParts(f.node.ref)[2])]
  /\ UNCHANGED <<extra_rules, defs, call, mem, api>>

\* _resolve_ref returning without storing the compiled body
_resolve_ref_store_skipped(t) ==
  /\ At(t, "_resolve_ref", "store")
  /\ Return(t, <<Ref(Top(t).safe)>>)
  /\ UNCHANGED <<heap, extra_rules, defs, call, entered, mem, api>>

\* self._extra_rules[safe_name] = expr; return safe_name
_resolve_ref_store(t) ==
  /\ At(t, "_resolve_ref", "store")
  /\ LET f == Top(t)
         d == extra_rules[call[t].inst]
     IN /\ heap' = [heap EXCEPT ![d] = DictSet(heap[d], f.safe, ret[t])]
        /\ Return(t, <<Ref(f.safe)>>)
  /\ UNCHANGED <<extra_rules, defs, call, entered, mem, api>>

(***************************************************************************)
(* _handle_any_of(variants, rule_name)                                     *)
(***************************************************************************)
\* sub_name = f"{rule_name}-opt{i}"
OptName(rn, i) == rn \o <<"-","o","p","t">> \o IntStr(i)

\* the loop from its i-th variant (1-based) with exprs collected so far
AnyOfLoop(t, f, i, exprs) ==
  IF i <= Len(f.node.anyOf)
    THEN Call(t, [f EXCEPT !.pc = "got", !.i = i, !.acc = exprs],
              S2R(f.node.anyOf[i], OptName(f.rn, i - 1)))
    ELSE Return(t, AltGroup(exprs))

_handle_any_of(t) ==
  /\ \/ /\ At(t, "_handle_any_of", "start")
        /\ AnyOfLoop(t, Top(t), 1, <<>>)
     \/ /\ At(t, "_handle_any_of", "got")
        /\ AnyOfLoop(t, Top(t), Top(t).i + 1, Append(Top(t).acc, ret[t]))
  /\ UNCHANGED <<heap, extra_rules, defs, call, entered, mem, api>>

(***************************************************************************)
(* _array_rule(schema, rule_name)                                          *)
(***************************************************************************)
ItemName(rn) == rn \o <<"-","i","t","e","m">>

_array_rule(t) ==
  /\ \/ /\ At(t, "_array_rule", "start")
        /\ IF "items" \notin Top(t).node.has
             THEN Return(t, ArrayExpr(<<Ref(NmString)>>))
             ELSE Call(t, [Top(t) EXCEPT !.pc = "got"],
                       S2R(Top(t).node.items[1], ItemName(Top(t).rn)))
     \/ /\ At(t, "_array_rule", "got")
        /\ Return(t, ArrayExpr(ret[t]))
  /\ UNCHANGED <<heap, extra_rules, defs, call, entered, mem, api>>

(***************************************************************************)
(* _object_rule(schema, rule_name)                                         *)
(***************************************************************************)
\* sub_rule_name = f"{rule_name}-{_rule_name_for_model(field_name)}"
SubRuleName(rn, field_name) == rn \o <<"-">> \o _rule_name_for_model(field_name)

\* the fields in the order the two loops visit them
LoopFields(node) == ReqFields(node) \o OptFields(node)

\* every pair built as an optional pair
PairOfAllOptional(node, j, value_expr) ==
  OptPair(LoopFields(node)[j].name, value_expr)

\* the pair appended for the j-th visited field and its value expression
PairOf(node, j, value_expr) ==
  IF j <= Len(ReqFields(node))
    THEN KeyValue(LoopFields(node)[j].name, value_expr)
    ELSE OptPair(LoopFields(node)[j].name, value_expr)

\* the two loops from the j-th visited field, then the build of the body
ObjectLoop(t, f, j, pairs) ==
  IF j <= Len(LoopFields(f.node))
    THEN Call(t, [f EXCEPT !.pc = "got", !.i = j, !.acc = pairs],
              S2R(LoopFields(f.node)[j].schema,
                  SubRuleName(f.rn, LoopFields(f.node)[j].name)))
  ELSE IF pairs = <<>>
    THEN Return(t, EmptyObjectExpr)
  ELSE IF ReqFields(f.node) # <<>>
    THEN Return(t, ObjectBodyReq(Len(ReqFields(f.node)), pairs))
  ELSE Call(t, [f EXCEPT !.pc = "first", !.acc = pairs],
            S2R(OptFields(f.node)[1].schema,
                SubRuleName(f.rn, OptFields(f.node)[1].name)))

_object_rule(t) ==
  /\ \/ /\ At(t, "_object_rule", "start")
        /\ IF Top(t).node.properties = <<>>
             THEN Return(t, EmptyObjectExpr)
             ELSE ObjectLoop(t, Top(t), 1, <<>>)
     \/ /\ At(t, "_object_rule", "got")
        /\ ObjectLoop(t, Top(t), Top(t).i + 1,
                      Append(Top(t).acc, PairOf(Top(t).node, Top(t).i, ret[t])))
     \/ /\ At(t, "_object_rule", "first")
        /\ Return(t, ObjectBodyOpt(OptFields(Top(t).node)[1].name, ret[t], Top(t).acc))
  /\ UNCHANGED <<heap, extra_rules, defs, call, entered, mem, api>>

(***************************************************************************)
(* The language of a grammar: what the inference engine accepts for a      *)
(* rule.  A text is a sequence of characters; whitespace (the rule ws) is  *)
(* left out, and a JSON string, number or integer accepted by a preamble   *)
(* rule is written as one symbol "<string>", "<number>", "<integer>".      *)
(* A "*" group is unrolled MaxStar times and rule references are followed  *)
(* to depth MaxDepth.                                                      *)
(***************************************************************************)
RECURSIVE Unescape(_)
\* the characters a quoted GBNF literal stands for
Unescape(chars) ==
  IF chars = <<>> THEN <<>>
  ELSE IF chars[1] = "\\" /\ Len(chars) >= 2
    THEN <<chars[2]>> \o Unescape(SubSeq(chars, 3, Len(chars)))
  ELSE <<chars[1]>> \o Unescape(Tail(chars))

Concat(A, B) == {x \o y : x \in A, y \in B}

RECURSIVE StarLang(_, _)
StarLang(A, k) == IF k = 0 THEN {<<>>} ELSE {<<>>} \cup Concat(A, StarLang(A, k - 1))

\* the texts of a preamble body
PrimLang(name) ==
  CASE name = NmWs -> {<<>>}
    [] name = NmNumber -> {<<"<number>">>}
    [] name = NmInteger -> {<<"<integer>">>}
    [] name = NmString -> {<<"<string>">>}

\* the body of rule name in grammar g: the last line of that name
HasRule(g, name) == \E j \in DOMAIN g : g[j].name = name
RuleBody(g, name) ==
  g[CHOOSE j \in DOMAIN g :
      g[j].name = name /\ \A l \in DOMAIN g : g[l].name = name => l <= j].body

IsOp(toks, p, c) == p <= Len(toks) /\ toks[p] = Op(c)

\* how many "(" are open before token k, counting from token lo
Depth(toks, lo, k) ==
  Cardinality({l \in lo..(k - 1) : toks[l] = Op("(")})
    - Cardinality({l \in lo..(k - 1) : toks[l] = Op(")")})

\* the position of the ")" that closes the "(" at position i
Close(toks, i) ==
  CHOOSE j \in (i + 1)..Len(toks) :
    /\ toks[j] = Op(")") /\ Depth(toks, i, j + 1) = 0
    /\ \A l \in (i + 1)..(j - 1) : ~(toks[l] = Op(")") /\ Depth(toks, i, l + 1) = 0)

RECURSIVE ConcatAll(_, _, _)
\* the concatenation of the languages langs[a], ..., langs[b]
ConcatAll(langs, a, b) ==
  IF a > b THEN {<<>>}
  ELSE IF a = b THEN langs[a]
  ELSE LET mid == (a + b) \div 2
       IN Concat(ConcatAll(langs, a, mid), ConcatAll(langs, mid + 1, b))

RECURSIVE LangAlt(_, _, _, _, _)
RECURSIVE LangSeq(_, _, _, _, _)
RECURSIVE LangItem(_, _, _, _)
RECURSIVE RuleLang(_, _, _)

\* the texts of the tokens lo..hi, an alternation of sequences
LangAlt(toks, lo, hi, g, depth) ==
  LET bars == SortedSeq({k \in lo..hi :
                           toks[k] = Op("|") /\ Depth(toks, lo, k) = 0})
      from(j) == IF j = 1 THEN lo ELSE bars[j - 1] + 1
      to(j) == IF j = Len(bars) + 1 THEN hi ELSE bars[j] - 1
  IN UNION {LangSeq(toks, from(j), to(j), g, depth) : j \in 1..(Len(bars) + 1)}

\* the texts of the tokens lo..hi, a sequence of items
LangSeq(toks, lo, hi, g, depth) ==
  LET starts == SortedSeq({k \in lo..hi :
                             /\ Depth(toks, lo, k) = 0
                             /\ toks[k] \notin {Op("?"), Op("*"), Op(")")}})
      langs == [j \in DOMAIN starts |-> LangItem(toks, starts[j], g, depth)]
  IN ConcatAll(langs, 1, Len(langs))

\* the texts of the item at position k: a literal, a rule name or a
\* group, with its "?" or "*"
LangItem(toks, k, g, depth) ==
  LET tk == toks[k]
      e == IF tk = Op("(") THEN Close(toks, k) ELSE k
      atom == CASE tk.k = "lit" -> {Unescape(tk.v)}
                [] tk.k = "prim" -> PrimLang(tk.v)
                [] tk.k = "ref" -> RuleLang(tk.v, g, depth)
                [] tk.k = "op" -> LangAlt(toks, k + 1, e - 1, g, depth)
  IN IF IsOp(toks, e + 1, "?") THEN atom \cup {<<>>}
     ELSE IF IsOp(toks, e + 1, "*") THEN StarLang(atom, MaxStar)
     ELSE atom

RuleLang(name, g, depth) ==
  IF depth = 0 \/ ~HasRule(g, name)
    THEN {}
    ELSE LangAlt(RuleBody(g, name), 1, Len(RuleBody(g, name)), g, depth - 1)

\* the texts the expression accepts, with the rules of grammar g
ExprLang(expr, g) == LangAlt(expr, 1, Len(expr), g, MaxDepth)

\* the texts the grammar accepts: those of its root rule
GrammarLang(g) == RuleLang(NmRoot, g, MaxDepth + 1)

(***************************************************************************)
(* Specifications.                                                         *)
(***************************************************************************)
\* one step of the generate() call thread t is running
Step(t) ==
  \/ generate_schema(t)
  \/ _schema_to_rule(t)
  \/ _resolve_ref_lookup(t)
  \/ _resolve_ref_check(t)
  \/ _resolve_ref_reserve(t)
  \/ _resolve_ref_store(t)
  \/ _handle_any_of(t)
  \/ _array_rule(t)
  \/ _object_rule(t)
  \/ generate_lines(t)
  \/ generate_emit(t)

\* what the caller has in hand when its call has ended
Ended(t) == ~Running(t) /\ outcome[t].kind # "none"
Record(t) ==
  [outcome |-> outcome[t], inst |-> call[t].inst, model |-> call[t].model]

\* the caller keeps the model and the outcome of a call that ended
Remember(t) ==
  /\ Ended(t)
  /\ mem # Record(t)
  /\ mem' = Record(t)
  /\ UNCHANGED <<heap, extra_rules, defs, stack, ret, call, entered, outcome, api>>

\* Sequential use: one caller, two generator instances, any sequence of
\* generate() calls on the fixed models.
Next ==
  \/ \E i \in Instances, m \in FixedModels : generate(1, i, m)
  \/ Step(1)
  \/ Remember(1)

Spec == Init /\ [][Next]_vars

\* One call on a new generator, over the fixed and the generated object
\* models.
NextObj ==
  \/ \E m \in FixedModels \cup GenModels :
       /\ call[1] = NoCall
       /\ generate(1, 1, m)
  \/ Step(1)

SpecObj == Init /\ [][NextObj]_vars

\* One call after another on one instance, over the fixed models.
NextTerm ==
  \/ \E m \in FixedModels : generate(1, 1, m)
  \/ Step(1)

SpecTerm == Init /\ [][NextTerm]_vars

\* a thread that is running a call keeps running it
FairTerm == SpecTerm /\ WF_vars(Step(1))

\* One call on a new generator, over the fixed models and the models with
\* a construct that is not supported.
NextErr ==
  \/ \E m \in FixedModels \cup UnsupportedModels :
       /\ call[1] = NoCall
       /\ generate(1, 1, m)
  \/ Step(1)

SpecErr == Init /\ [][NextErr]_vars

\* Concurrent use of one generator (instance 1, as the one generator of a
\* StructuredLLM) by two threads, one generate() call each.  Before that,
\* thread 1 compiles a model alone on instance 2 and keeps the outcome;
\* its concurrent call compiles the same model.
ConcModels == {SelfRefModel, EventModel, TagsModel}

NextConc ==
  \/ \E m \in ConcModels :
       /\ mem = NoMem /\ call[1] = NoCall
       /\ generate(1, 2, m)
  \/ /\ call[1].inst = 2
     /\ Remember(1)
  \/ \E t \in Threads, m \in ConcModels :
       /\ mem # NoMem /\ call[t].inst # 1
       /\ t = 1 => m = mem.model
       /\ generate(t, 1, m)
  \/ \E t \in Threads : Step(t)

SpecConc == Init /\ [][NextConc]_vars

(***************************************************************************)
(* Reading a grammar and a schema back, for the properties.                *)
(***************************************************************************)
\* a returned grammar of thread t
ReturnedBy(t) == Ended(t) /\ outcome[t].kind = "return"
Grammar(t) == outcome[t].grammar
Root(t) == call[t].model.root
RootIsObject(t) == Branch(Root(t)) = "object" /\ Root(t).properties # <<>>

\* the positions of the key literals of an object expression: a literal
\* between two quote literals, followed by ws ":"
KeyPositions(toks) ==
  {p \in 2..(Len(toks) - 3) :
     /\ toks[p].k = "lit"
     /\ toks[p - 1] = QuoteLit /\ toks[p + 1] = QuoteLit
     /\ toks[p + 2] = Ws /\ toks[p + 3] = Lit(<<":">>)}

\* the keys an object expression names, in the order of the text
KeysOfExpr(toks) ==
  LET ps == SortedSeq(KeyPositions(toks))
  IN [j \in DOMAIN ps |-> Unescape(toks[ps[j]].v)]

NamesOf(fields) == [j \in DOMAIN fields |-> fields[j].name]

\* the helper lines of a grammar text and its root line
HelperLines(g) == SubSeq(g, Len(_GBNF_PREAMBLE) + 1, Len(g) - 1)
RootLine(g) == g[Len(g)]

(***************************************************************************)
(* C1.  generate is deterministic: two calls with the same model, on the   *)
(* same or on another instance and with any calls in between, end the     *)
(* same way with the same grammar text.  The object fields are in the      *)
(* schema's order: the required ones in declared order, then the optional  *)
(* ones in declared order.                                                 *)
(***************************************************************************)
SameModelAsKept(t) == Ended(t) /\ mem # NoMem /\ mem.model = call[t].model

C1_Deterministic ==
  \A t \in Threads :
    /\ SameModelAsKept(t) => outcome[t] = mem.outcome
    /\ ReturnedBy(t) /\ RootIsObject(t) =>
         KeysOfExpr(RootLine(Grammar(t)).body)
           = NamesOf(ReqFields(Root(t))) \o NamesOf(OptFields(Root(t)))

\* C1 as stated: the fields of the object rule are in declared order
C1_DeclaredOrder ==
  \A t \in Threads :
    /\ SameModelAsKept(t) => outcome[t] = mem.outcome
    /\ ReturnedBy(t) /\ RootIsObject(t) =>
         KeysOfExpr(RootLine(Grammar(t)).body) = NamesOf(Root(t).properties)

\* the same model compiled again on the other instance, after a call with
\* another model on this instance
C1_Witness ==
  /\ ReturnedBy(1) /\ SameModelAsKept(1)
  /\ mem.inst # call[1].inst
  /\ call[1].model = MutualModel
  /\ extra_rules[mem.inst] # 0 /\ heap[extra_rules[mem.inst]] = <<>>

(***************************************************************************)
(* C2.  generate terminates, also on definitions that refer to themselves  *)
(* or to each other: a call that has started ends, not by exhausting the   *)
(* call stack, and _resolve_ref enters the body of a definition at most    *)
(* once per call.                                                          *)
(***************************************************************************)
NoDuplicates(q) == \A j, l \in DOMAIN q : q[j] = q[l] => j = l

C2_Terminates ==
  /\ [](\A t \in Threads : NoDuplicates(entered[t]))
  /\ \A t \in {1} :
       Running(t) ~> (Ended(t) /\ outcome[t].err.type # "RecursionError")

\* the mutually recursive model compiled: each definition entered once
C2_Witness ==
  /\ ReturnedBy(1) /\ call[1].model = MutualModel
  /\ entered[1] = <<<<"A">>, <<"B">>>>

(***************************************************************************)
(* The definitions of a schema that generate reaches from the root.        *)
(***************************************************************************)
\* the sub-schemas _schema_to_rule visits from a node
Children(node) ==
  CASE Branch(node) = "anyOf" -> Range(node.anyOf)
    [] Branch(node) = "array" -> Range(node.items)
    [] Branch(node) = "object" -> {node.properties[j].schema : j \in DOMAIN node.properties}
    [] OTHER -> {}

RECURSIVE RefsIn(_)
\* the definition names the $refs under a node name
RefsIn(node) ==
  IF Branch(node) = "$ref"
    THEN (IF Len(RefParts(node.ref)) = 2 THEN {RefParts(node.ref)[2]} ELSE {})
    ELSE UNION {RefsIn(c) : c \in Children(node)}

RECURSIVE ReachFrom(_, _, _)
ReachFrom(R, ds, k) ==
  IF k = 0 THEN R
  ELSE ReachFrom(R \cup UNION {RefsIn(DictGet(ds, d)[1]) : d \in R}, ds, k - 1)

\* the names of the definitions of $defs reachable by $ref from the root
ReachableDefs(m) ==
  ReachFrom(RefsIn(m.root) \cap Keys(m.defs), m.defs, Len(m.defs))

(***************************************************************************)
(* C3.  A returned grammar has exactly one helper rule per definition      *)
(* reachable from the root: every such definition has a rule of its own,   *)
(* compiled from it (for an object definition: a rule that names its       *)
(* fields), and no rule is emitted twice.                                  *)
(***************************************************************************)
C3_OneRulePerDefinition ==
  \A t \in Threads :
    ReturnedBy(t) =>
      LET R == ReachableDefs(call[t].model)
          H == HelperLines(Grammar(t))
      IN /\ Len(H) = Cardinality(R)
         /\ NoDuplicates(NamesOf(H))
         /\ \A d \in R :
              LET def == DictGet(call[t].model.defs, d)[1]
              IN \E j \in DOMAIN H :
                   /\ H[j].name = _rule_name_for_model(d)
                   /\ Branch(def) = "object" =>
                        KeysOfExpr(H[j].body) = NamesOf(LoopFields(def))

(***************************************************************************)
(* C4.  The rule names of a returned grammar are unique, counting the      *)
(* preamble rules, the helper rules and the root rule.                     *)
(***************************************************************************)
C4_UniqueRuleNames ==
  \A t \in Threads : ReturnedBy(t) => NoDuplicates(NamesOf(Grammar(t)))

(***************************************************************************)
(* C5.  Concurrent calls on one generator do not share a compile context:  *)
(* each call ends as it ends when run alone.                               *)
(***************************************************************************)
C5_Isolated ==
  \A t \in Threads :
    Ended(t) /\ call[t].inst = 1 /\ mem.model = call[t].model
      => outcome[t] = mem.outcome

(***************************************************************************)
(* JSON texts of the instances of an object schema.  A string value is     *)
(* written "<string>", an integer "<integer>", an array as the empty       *)
(* array; a value of Optional[X] as a value of X.                          *)
(***************************************************************************)
\* the value schemas a sample text is written for
PlainValue(node) ==
  \/ Branch(node) \in {"string", "integer", "array"}
  \/ /\ Branch(node) = "anyOf" /\ node.anyOf # <<>>
     /\ Branch(node.anyOf[1]) \in {"string", "integer"}

Plain(t) ==
  \A j \in DOMAIN Root(t).properties : PlainValue(Root(t).properties[j].schema)

RECURSIVE ValueText(_)
ValueText(node) ==
  CASE Branch(node) = "string" -> <<"<string>">>
    [] Branch(node) = "integer" -> <<"<integer>">>
    [] Branch(node) = "array" -> <<"[", "]">>
    [] Branch(node) = "anyOf" -> ValueText(node.anyOf[1])

\* "name":value
MemberText(field) ==
  <<"\"">> \o field.name \o <<"\"", ":">> \o ValueText(field.schema)

RECURSIVE JoinComma(_)
JoinComma(texts) ==
  IF texts = <<>> THEN <<>>
  ELSE IF Len(texts) = 1 THEN texts[1]
  ELSE texts[1] \o <<",">> \o JoinComma(Tail(texts))

\* {"a":..., "b":...} with the given fields, in their order
ObjectText(fields) ==
  <<"{">> \o JoinComma([j \in DOMAIN fields |-> MemberText(fields[j])]) \o <<"}">>

\* the fields of q at the positions S, in the order of q
Pick(q, S) == LET ps == SortedSeq(S) IN [j \in DOMAIN ps |-> q[ps[j]]]

\* a comma that follows an opening bracket or a comma, or precedes a
\* closing bracket
DanglingComma(x) ==
  \E p \in DOMAIN x :
    /\ x[p] = ","
    /\ \/ p = 1 \/ p = Len(x)
       \/ x[p - 1] \in {"{", "[", ","}
       \/ x[p + 1] \in {"}", "]", ","}

\* the keys of an object text, in order (keys of one character)
KeysOfText(x) ==
  LET ps == SortedSeq({p \in 1..(Len(x) - 3) :
                         x[p] = "\"" /\ x[p + 2] = "\"" /\ x[p + 3] = ":"})
  IN [j \in DOMAIN ps |-> <<x[ps[j] + 1]>>]

(***************************************************************************)
(* C6.  For every subset S of the optional fields of an object schema,     *)
(* the text with the required fields and then the fields of S is accepted  *)
(* by the object rule, and no accepted text has a leading, trailing or     *)
(* doubled comma.                                                          *)
(***************************************************************************)
C6_AnyOptionalSubset ==
  \A t \in Threads :
    ReturnedBy(t) /\ RootIsObject(t) /\ Plain(t) =>
      LET req == ReqFields(Root(t))
          opt == OptFields(Root(t))
          L == GrammarLang(Grammar(t))
      IN /\ \A S \in SUBSET DOMAIN opt : ObjectText(req \o Pick(opt, S)) \in L
         /\ \A x \in L : ~DanglingComma(x)

(***************************************************************************)
(* C7.  For an object schema with a required field, every accepted text    *)
(* has every required field exactly once, in declared order, before any    *)
(* optional field, and the text with the required fields alone is          *)
(* accepted.                                                               *)
(***************************************************************************)
C7_RequiredFirst ==
  \A t \in Threads :
    ReturnedBy(t) /\ RootIsObject(t) /\ Plain(t) /\ ReqFields(Root(t)) # <<>> =>
      LET req == ReqFields(Root(t))
          opt == OptFields(Root(t))
          L == GrammarLang(Grammar(t))
      IN /\ ObjectText(req) \in L
         /\ \A x \in L :
              LET ks == KeysOfText(x)
              IN /\ Len(ks) >= Len(req)
                 /\ SubSeq(ks, 1, Len(req)) = NamesOf(req)
                 /\ \A j \in (Len(req) + 1)..Len(ks) : ks[j] \in Range(NamesOf(opt))

\* a compiled object with a required and an optional field
C7_Witness ==
  /\ ReturnedBy(1) /\ RootIsObject(1) /\ Plain(1)
  /\ ReqFields(Root(1)) # <<>> /\ OptFields(Root(1)) # <<>>
  /\ ObjectText(ReqFields(Root(1))) \in GrammarLang(Grammar(1))
  /\ Cardinality(GrammarLang(Grammar(1))) > 1

(***************************************************************************)
(* C8.  Empty collections are accepted: "[]" by the array rule, whatever   *)
(* the item type, and "{}" by the rule of an object with no property and   *)
(* by the rule of an object whose fields are all optional.                 *)
(***************************************************************************)
HasArrayField(node) ==
  \E j \in DOMAIN node.properties : Branch(node.properties[j].schema) = "array"

C8_EmptyCollections ==
  \A t \in Threads :
    ReturnedBy(t) =>
      LET L == GrammarLang(Grammar(t))
      IN /\ Branch(Root(t)) = "array" => <<"[", "]">> \in L
         /\ RootIsObject(t) /\ Plain(t) /\ HasArrayField(Root(t)) =>
              ObjectText(LoopFields(Root(t))) \in L
         /\ Branch(Root(t)) = "object" /\ ReqFields(Root(t)) = <<>> =>
              <<"{", "}">> \in L

\* a compiled object whose fields are all optional, one of them an array
C8_Witness ==
  /\ ReturnedBy(1) /\ RootIsObject(1) /\ Plain(1)
  /\ ReqFields(Root(1)) = <<>> /\ HasArrayField(Root(1))
  /\ <<"{", "}">> \in GrammarLang(Grammar(1))
  /\ ObjectText(LoopFields(Root(1))) \in GrammarLang(Grammar(1))

(***************************************************************************)
(* JSON literals of enum values, and the alternatives of an expression.    *)
(***************************************************************************)
\* the JSON literal of an enum value
JsonLit(v) ==
  CASE v.vk = "str" ->
         <<"\"">> \o Replace(Replace(v.s, "\\", <<"\\", "\\">>), "\"", <<"\\", "\"">>)
           \o <<"\"">>
    [] v.vk = "int" -> IntStr(v.n)
    [] v.vk = "bool" -> IF v.n = 1 THEN <<"t", "r", "u", "e">> ELSE <<"f", "a", "l", "s", "e">>
    [] v.vk = "none" -> <<"n", "u", "l", "l">>

\* the languages of the alternatives of an expression, in the order of the
\* text; an expression that is one group counts as its content
AltLangs(expr, g) ==
  LET grouped == expr # <<>> /\ expr[1] = Op("(") /\ Close(expr, 1) = Len(expr)
      lo == IF grouped THEN 2 ELSE 1
      hi == IF grouped THEN Len(expr) - 1 ELSE Len(expr)
      bars == SortedSeq({k \in lo..hi :
                           expr[k] = Op("|") /\ Depth(expr, lo, k) = 0})
      from(j) == IF j = 1 THEN lo ELSE bars[j - 1] + 1
      to(j) == IF j = Len(bars) + 1 THEN hi ELSE bars[j] - 1
  IN [j \in 1..(Len(bars) + 1) |-> LangSeq(expr, from(j), to(j), g, MaxDepth)]

\* an object with one field, required, whose schema lists enum values
EnumField(t) ==
  /\ RootIsObject(t) /\ Len(Root(t).properties) = 1
  /\ Len(ReqFields(Root(t))) = 1
  /\ "enum" \in Root(t).properties[1].schema.has
  /\ Root(t).properties[1].schema.enum # <<>>
  /\ \A v \in Range(Root(t).properties[1].schema.enum) : v.vk # "other"

\* the value expression of the one field of the root rule: what stands
\* between "key" ws ":" ws and ws "}"
ValueExpr(g) ==
  LET body == RootLine(g).body
      p == CHOOSE q \in KeyPositions(body) : TRUE
  IN SubSeq(body, p + 5, Len(body) - 2)

(***************************************************************************)
(* C9.  For a field whose schema lists enum values (string-typed,          *)
(* integer-typed or untyped), the grammar accepts for the field exactly    *)
(* the JSON literals of the listed values, one alternative per value, in   *)
(* the listed order.                                                       *)
(***************************************************************************)
C9_EnumFidelity ==
  \A t \in Threads :
    ReturnedBy(t) /\ EnumField(t) =>
      LET f == Root(t).properties[1]
          vals == f.schema.enum
      IN /\ AltLangs(ValueExpr(Grammar(t)), Grammar(t))
              = [j \in DOMAIN vals |-> {JsonLit(vals[j])}]
         /\ GrammarLang(Grammar(t))
              = {<<"{", "\"">> \o f.name \o <<"\"", ":">> \o JsonLit(v) \o <<"}">> :
                   v \in Range(vals)}

(***************************************************************************)
(* C10.  A call with a schema that has an enum with an empty list of       *)
(* values ends by raising GrammarGenerationError, with no grammar text.    *)
(***************************************************************************)
RECURSIVE NodesUnder(_)
\* a node and the sub-schemas under it
NodesUnder(node) == {node} \cup UNION {NodesUnder(c) : c \in Children(node)}

HasEmptyEnum(m) ==
  \E node \in NodesUnder(m.root)
               \cup UNION {NodesUnder(m.defs[j].schema) : j \in DOMAIN m.defs} :
    "enum" \in node.has /\ node.enum = <<>>

C10_EmptyEnumRaises ==
  \A t \in Threads :
    Ended(t) /\ HasEmptyEnum(call[t].model) =>
      /\ outcome[t].kind = "raise"
      /\ outcome[t].err.type = "GrammarGenerationError"

(***************************************************************************)
(* C11.  A schema with a construct outside the supported node kinds (an    *)
(* untyped field, an array without item type, an object without            *)
(* properties, a $ref that is malformed or names no definition, an enum    *)
(* value that is not a scalar) makes generate raise                        *)
(* GrammarGenerationError, and the error names the rule path of such a     *)
(* construct.                                                              *)
(***************************************************************************)
\* a node that is itself outside the supported kinds
Unsupported(node, ds) ==
  \/ Branch(node) = "unsupported"
  \/ TypeOf(node) = "array" /\ "items" \notin node.has
  \/ TypeOf(node) = "object" /\ node.properties = <<>>
  \/ /\ "$ref" \in node.has
     /\ \/ Len(RefParts(node.ref)) # 2
        \/ RefParts(node.ref)[1] # DefsKey
        \/ RefParts(node.ref)[2] \notin Keys(ds)
  \/ "enum" \in node.has /\ \E v \in Range(node.enum) : v.vk = "other"

RECURSIVE OffendingPaths(_, _, _)
\* the rule paths of the unsupported nodes at or under a node of path rn
OffendingPaths(node, rn, ds) ==
  IF Unsupported(node, ds) THEN {rn}
  ELSE CASE Branch(node) = "object" ->
              UNION {OffendingPaths(node.properties[j].schema,
                                    SubRuleName(rn, node.properties[j].name), ds) :
                       j \in DOMAIN node.properties}
         [] Branch(node) = "array" ->
              OffendingPaths(node.items[1], ItemName(rn), ds)
         [] Branch(node) = "anyOf" ->
              UNION {OffendingPaths(node.anyOf[j], OptName(rn, j - 1), ds) :
                       j \in DOMAIN node.anyOf}
         [] OTHER -> {}

C11_UnsupportedRaises ==
  \A t \in Threads :
    LET bad == OffendingPaths(Root(t), NmRoot, call[t].model.defs)
    IN Ended(t) /\ bad # {} =>
         /\ outcome[t].kind = "raise"
         /\ outcome[t].err.type = "GrammarGenerationError"
         /\ outcome[t].err.at \in bad

(***************************************************************************)
(* LlamaCppClient (client.py).  A str that is a URL is a sequence of        *)
(* pieces, "/" one of them.                                                *)
(***************************************************************************)
_DEFAULT_TEMPERATURE == 0
_DEFAULT_MAX_TOKENS == 2048
_DEFAULT_TOP_P == 1
_DEFAULT_TOP_K == 1
_DEFAULT_REPEAT_PENALTY == 1

\* the exceptions of httpx that are httpx.TransportError, and those among
\* them that are httpx.TimeoutException
TransportErrors == {"ConnectError", "ReadTimeout"}
TimeoutExceptions == {"ReadTimeout"}

Request(method, url, body) == [body |-> body, url |-> url, method |-> method]

RECURSIVE Update(_, _)
\* payload.update(extra_params)
Update(items, extra) ==
  IF extra = <<>> THEN items
  ELSE Update(DictSet(items, extra[1].name, extra[1].body), Tail(extra))

RECURSIVE SetDefaults(_, _)
\* the extra parameters fill in only the keys the payload does not have
SetDefaults(items, extra) ==
  IF extra = <<>> THEN items
  ELSE SetDefaults(IF extra[1].name \in Keys(items) THEN items
                   ELSE DictSet(items, extra[1].name, extra[1].body),
                   Tail(extra))

\* the request body with the defaults taking precedence over extra_params
PayloadDefaultsWin(prompt, grammar, temperature, max_tokens, extra_params) ==
  SetDefaults(<<Line("prompt", prompt), Line("grammar", grammar),
                Line("temperature", temperature),
                Line("n_predict", PInt(max_tokens)),
                Line("top_p", PFloat(_DEFAULT_TOP_P)),
                Line("top_k", PInt(_DEFAULT_TOP_K)),
                Line("repeat_penalty", PFloat(_DEFAULT_REPEAT_PENALTY)),
                Line("stream", PBool(FALSE))>>, extra_params)

\* payload = {...}; if extra_params: payload.update(extra_params)
Payload(prompt, grammar, temperature, max_tokens, extra_params) ==
  Update(<<Line("prompt", prompt), Line("grammar", grammar),
           Line("temperature", temperature),
           Line("n_predict", PInt(max_tokens)),
           Line("top_p", PFloat(_DEFAULT_TOP_P)),
           Line("top_k", PInt(_DEFAULT_TOP_K)),
           Line("repeat_penalty", PFloat(_DEFAULT_REPEAT_PENALTY)),
           Line("stream", PBool(FALSE))>>, extra_params)

Content == <<"c", "o", "n", "t", "e", "n", "t">>

\* x occurs in s as a substring
IsSubstring(x, s) ==
  \E p \in 0..(Len(s) - Len(x)) : SubSeq(s, p + 1, p + Len(x)) = x

\* key in data: [ok, b], ok = FALSE when Python raises TypeError
PyContains(key, data) ==
  CASE data.t = "dict" -> [b |-> key \in Keys(data.xs), ok |-> TRUE]
    [] data.t = "list" -> [b |-> PStr(key) \in Range(data.xs), ok |-> TRUE]
    [] data.t = "str" -> [b |-> IsSubstring(key, data.s), ok |-> TRUE]
    [] OTHER -> [b |-> FALSE, ok |-> FALSE]

\* data[key] of a dict
PyGetItem(data, key) ==
  data.xs[CHOOSE j \in DOMAIN data.xs : data.xs[j].name = key].body

\* the values len() takes
HasLen(v) == v.t \in {"str", "list", "dict"}

\* what complete() does with the response: status, JSON, "content"
CompleteResponse(reply) ==
  IF reply.status # 200 THEN Threw(LlamaCppClientError("HTTP status"))
  ELSE IF ~reply.json THEN Threw(LlamaCppClientError("non-JSON response"))
  ELSE IF ~PyContains(Content, reply.data).ok THEN Threw(TypeError)
  ELSE IF ~PyContains(Content, reply.data).b
    THEN Threw(LlamaCppClientError("missing content"))
  ELSE IF reply.data.t # "dict" THEN Threw(TypeError)
  ELSE IF ~HasLen(PyGetItem(reply.data, Content)) THEN Threw(TypeError)
  ELSE Gave(PyGetItem(reply.data, Content))

\* complete() sending the request again after a transport failure
CompleteRetry(c, prompt, grammar, temperature, max_tokens, extra_params, reply) ==
  LET payload == Payload(prompt, grammar, temperature, max_tokens, extra_params)
      post == Request("POST", c.base_url \o <<"/completion">>, payload)
  IN IF c.http = "closed"
       THEN [sent |-> <<>>, res |-> Threw(ClosedClientError)]
     ELSE IF reply.kind \in TransportErrors
       THEN [sent |-> <<post, post>>,
             res |-> Threw(LlamaCppClientError("cannot connect"))]
     ELSE [sent |-> <<post>>, res |-> CompleteResponse(reply)]

\* complete(prompt, grammar, temperature=, max_tokens=, extra_params=) on
\* client c, given what comes back for the POST: [sent, res]
Complete(c, prompt, grammar, temperature, max_tokens, extra_params, reply) ==
  LET payload == Payload(prompt, grammar, temperature, max_tokens, extra_params)
      post == Request("POST", c.base_url \o <<"/completion">>, payload)
  IN IF c.http = "closed"
       THEN [sent |-> <<>>, res |-> Threw(ClosedClientError)]
     ELSE IF reply.kind \in TransportErrors
       THEN [sent |-> <<post>>, res |-> Threw(LlamaCppClientError("cannot connect"))]
     ELSE IF reply.kind \in TimeoutExceptions
       THEN [sent |-> <<post>>, res |-> Threw(LlamaCppClientError("timed out"))]
     ELSE [sent |-> <<post>>, res |-> CompleteResponse(reply)]

\* health_check() answering True for every response
HealthCheckAnyResponse(c, reply) ==
  LET get == Request("GET", c.base_url \o <<"/health">>, <<>>)
  IN IF c.http = "closed" THEN [sent |-> <<>>, res |-> Gave(PBool(FALSE))]
     ELSE [sent |-> <<get>>, res |-> Gave(PBool(reply.kind = "response"))]

\* health_check() on client c, given what comes back for the GET
HealthCheck(c, reply) ==
  LET get == Request("GET", c.base_url \o <<"/health">>, <<>>)
  IN IF c.http = "closed" THEN [sent |-> <<>>, res |-> Gave(PBool(FALSE))]
     ELSE IF reply.kind # "response" THEN [sent |-> <<get>>, res |-> Gave(PBool(FALSE))]
     ELSE [sent |-> <<get>>, res |-> Gave(PBool(reply.status = 200))]

\* LlamaCppClient(server_url)
NewClient(server_url) == [http |-> "open", base_url |-> RStrip(server_url, {"/"})]

\* close() opening again a client that is closed
ClosedOrReopened(c) ==
  [c EXCEPT !.http = IF c.http = "closed" THEN "open" ELSE "closed"]

\* close(): self._http.close(); closing a closed httpx.Client does nothing
Closed(c) == [c EXCEPT !.http = "closed"]

\* the arguments and the server's answers the client is run with
Urls == {<<"http://host:8080">>, <<"http://host:8080", "/">>}
Prompts == {<<"p">>}
Temperatures == {PFloat(_DEFAULT_TEMPERATURE), PFloat(1)}
MaxTokens == {_DEFAULT_MAX_TOKENS}
ExtraParams ==
  { <<>>,
    <<Line("top_k", PInt(40))>>,
    <<Line("stream", PBool(TRUE))>>,
    <<Line("seed", PInt(7)), Line("temperature", PFloat(1))>> }
Statuses == {200, 404, 500}
JsonBodies ==
  { PDict(<<Line(Content, PStr(<<"{", "}">>))>>),
    PDict(<<Line(<<"m">>, PInt(1)), Line(Content, PStr(<<>>))>>),
    PDict(<<>>),
    PDict(<<Line(<<"e", "r", "r", "o", "r">>, PStr(Content))>>),
    PDict(<<Line(Content, PNone)>>),
    PDict(<<Line(Content, PInt(5))>>),
    PDict(<<Line(Content, PList(<<PStr(<<"a">>)>>))>>),
    PList(<<PStr(Content)>>),
    PList(<<>>),
    PStr(<<"n", "o", " ">> \o Content),
    PStr(<<>>),
    PInt(3),
    PNone }
Replies ==
  {HttpxError(k) : k \in TransportErrors}
    \cup {Response(st, FALSE, PNone) : st \in Statuses}
    \cup {Response(st, TRUE, d) : st \in Statuses, d \in JsonBodies}

\* LlamaCppClient(server_url)
LlamaCppClient(t, server_url) ==
  /\ client.http = "none"
  /\ client' = NewClient(server_url)
  /\ op' = [op EXCEPT ![t] = [NoOp EXCEPT !.name = "LlamaCppClient",
                                          !.url = server_url]]
  /\ sent' = [sent EXCEPT ![t] = <<>>]
  /\ result' = [result EXCEPT ![t] = Gave(PNone)]
  /\ UNCHANGED <<rate, llm, gram>>

\* client.complete(prompt, grammar, temperature=, max_tokens=, extra_params=)
complete(t, prompt, grammar, temperature, max_tokens, extra_params, reply) ==
  LET r == Complete(client, prompt, grammar, temperature, max_tokens,
                    extra_params, reply)
  IN /\ client.http # "none"
     /\ op' = [op EXCEPT ![t] =
                 [NoOp EXCEPT !.name = "complete", !.text = prompt,
                              !.value = grammar, !.temperature = temperature,
                              !.max_tokens = max_tokens, !.extra = extra_params,
                              !.reply = IF r.sent = <<>> THEN NoReply ELSE reply]]
     /\ sent' = [sent EXCEPT ![t] = r.sent]
     /\ result' = [result EXCEPT ![t] = r.res]
     /\ UNCHANGED <<rate, client, llm, gram>>

\* client.health_check()
health_check(t, reply) ==
  LET r == HealthCheck(client, reply)
  IN /\ client.http # "none"
     /\ op' = [op EXCEPT ![t] =
                 [NoOp EXCEPT !.name = "health_check",
                              !.reply = IF r.sent = <<>> THEN NoReply ELSE reply]]
     /\ sent' = [sent EXCEPT ![t] = r.sent]
     /\ result' = [result EXCEPT ![t] = r.res]
     /\ UNCHANGED <<rate, client, llm, gram>>

\* client.close(), also the exit of "with LlamaCppClient(...)"
client_close(t) ==
  /\ client.http # "none"
  /\ client' = Closed(client)
  /\ op' = [op EXCEPT ![t] = [NoOp EXCEPT !.name = "close"]]
  /\ sent' = [sent EXCEPT ![t] = <<>>]
  /\ result' = [result EXCEPT ![t] = Gave(PNone)]
  /\ UNCHANGED <<rate, llm, gram>>

\* one caller using a LlamaCppClient directly
NextClient ==
  \/ \E u \in Urls : LlamaCppClient(1, u)
  \/ \E p \in Prompts, tm \in Temperatures, mx \in MaxTokens,
        ex \in ExtraParams, r \in Replies :
       complete(1, p, PGrammar(_GBNF_PREAMBLE), tm, mx, ex, r)
  \/ \E r \in Replies : health_check(1, r)
  \/ client_close(1)
SpecClient == Init /\ [][NextClient]_vars

\* the item of a request body under a key
Item(body, key) == body[CHOOSE j \in DOMAIN body : body[j].name = key].body

\* C13: complete() returns a value if and only if the server answered with
\* HTTP 200 and a JSON body containing a 'content' string, and returns that
\* string; for every other response and every transport failure it raises
\* LlamaCppClientError.
C13_CompleteContract ==
  \A t \in Threads :
    op[t].name = "complete" /\ sent[t] # <<>> =>
      LET reply == op[t].reply
          good == /\ reply.kind = "response"
                  /\ reply.status = 200
                  /\ reply.json
                  /\ reply.data.t = "dict"
                  /\ Content \in Keys(reply.data.xs)
                  /\ PyGetItem(reply.data, Content).t = "str"
      IN /\ result[t].kind = "return" <=> good
         /\ good => result[t].value = PyGetItem(reply.data, Content)
         /\ ~good => /\ result[t].kind = "raise"
                     /\ result[t].err.type = "LlamaCppClientError"

\* the sampling fields of the request body and their fixed defaults
SamplingDefaults ==
  << Line("top_p", PFloat(_DEFAULT_TOP_P)),
     Line("top_k", PInt(_DEFAULT_TOP_K)),
     Line("repeat_penalty", PFloat(_DEFAULT_REPEAT_PENALTY)),
     Line("stream", PBool(FALSE)) >>

\* the body of the POST of a complete() call: every key of extra_params is
\* in the body with the value of extra_params, every sampling field not in
\* extra_params has its default, and temperature, when not in extra_params,
\* is tm
BodyOf(t, tm) ==
  LET body == sent[t][1].body
      extra == op[t].extra
  IN /\ \A k \in Keys(extra) : k \in Keys(body) /\ Item(body, k) = Item(extra, k)
     /\ \A k \in Keys(SamplingDefaults) \ Keys(extra) :
          Item(body, k) = Item(SamplingDefaults, k)
     /\ "temperature" \notin Keys(extra) => Item(body, "temperature") = tm
     /\ Keys(body) =
          {"prompt", "grammar", "temperature", "n_predict"}
            \cup Keys(SamplingDefaults) \cup Keys(extra)

\* C14 (as stated): the request body built by complete() carries
\* temperature 0, top_p 1.0, top_k 1, repeat_penalty 1.0 and stream false
\* whenever the caller passes no extra parameters; each key of extra_params
\* replaces the default or adds a field, every other key keeps its default.
C14_FixedDefaults ==
  \A t \in Threads :
    op[t].name = "complete" /\ sent[t] # <<>> =>
      BodyOf(t, PFloat(_DEFAULT_TEMPERATURE))

\* C14 (amended): as above, except that the temperature of the body, when
\* extra_params does not hold one, is the temperature argument of
\* complete(), which is 0 only by default.
C14_PayloadDefaults ==
  \A t \in Threads :
    op[t].name = "complete" /\ sent[t] # <<>> =>
      BodyOf(t, op[t].temperature)

\* a complete() call whose extra_params replace a default and add a field
C14_Witness ==
  /\ op[1].name = "complete"
  /\ sent[1] # <<>>
  /\ Keys(op[1].extra) = {"seed", "temperature"}
  /\ Item(sent[1][1].body, "seed") = PInt(7)
  /\ Item(sent[1][1].body, "top_k") = PInt(_DEFAULT_TOP_K)

PyWhitespace == {" ", "\t", "\n", "\r", "\f"}
JsonWhitespace == {" ", "\t", "\n", "\r"}
ControlChars == {"\t", "\n", "\r", "\f"}
DigitSet == Range(Digits)

Least(S) == CHOOSE x \in S : \A y \in S : x <= y
Greatest(S) == CHOOSE x \in S : \A y \in S : x >= y

\* the result of reading a value: the value and the position after it
Read(v, i) == [i |-> i, v |-> v, ok |-> TRUE]
Fail == [i |-> 0, v |-> PNone, ok |-> FALSE]

\* the first position from i on that holds no whitespace of JSON
SkipWs(s, i) ==
  LET P == {j \in i..Len(s) : s[j] \notin JsonWhitespace}
  IN IF P = {} THEN Len(s) + 1 ELSE Least(P)

StartsWith(s, i, w) ==
  i + Len(w) - 1 <= Len(s) /\ SubSeq(s, i, i + Len(w) - 1) = w

\* the backslash at j begins an escape: an even number of backslashes
\* stands right before it (lo is where the string's characters begin)
StartsEscape(s, lo, j) ==
  /\ s[j] = "\\"
  /\ LET nb == {k \in lo..(j - 1) : s[k] # "\\"}
         last == IF nb = {} THEN lo - 1 ELSE Greatest(nb)
     IN (j - 1 - last) % 2 = 0

\* the character an escape \c stands for
DecodeEscape(c) ==
  CASE c = "n" -> "\n"
    [] c = "t" -> "\t"
    [] c = "r" -> "\r"
    [] c = "f" -> "\f"
    [] OTHER -> c

\* the closing quotes a string that opens at i can end with
CloseQuotes(s, i) ==
  {j \in (i + 1)..Len(s) :
     s[j] = "\"" /\ ~(j > i + 1 /\ StartsEscape(s, i + 1, j - 1))}

\* the characters between the quotes that begin an escape
Escapes(raw) == {j \in DOMAIN raw : StartsEscape(raw, 1, j)}

\* the characters of a string, keep the positions that are no backslash
\* of an escape
Decoded(raw, esc, keep) ==
  [j \in DOMAIN keep |->
     IF keep[j] - 1 \in esc THEN DecodeEscape(raw[keep[j]]) ELSE raw[keep[j]]]

\* py_scanstring on the characters between the quotes
DecodeString(raw, esc, next) ==
  IF \/ \E j \in DOMAIN raw : raw[j] \in ControlChars
     \/ \E j \in esc : raw[j + 1] \notin {"\"", "\\", "/", "n", "t", "r", "f"}
    THEN Fail
  ELSE Read(Decoded(raw, esc, SortedSeq(DOMAIN raw \ esc)), next)

StringUpTo(s, i, e) ==
  DecodeString(SubSeq(s, i + 1, e - 1), Escapes(SubSeq(s, i + 1, e - 1)), e + 1)

\* the string whose opening quote is at i: its characters, and the
\* position after its closing quote
JsonString(s, i) ==
  IF CloseQuotes(s, i) = {} THEN Fail
  ELSE StringUpTo(s, i, Least(CloseQuotes(s, i)))

\* how many digits stand from position i on
DigitRun(s, i) ==
  LET nd == {j \in i..Len(s) : s[j] \notin DigitSet}
  IN (IF nd = {} THEN Len(s) + 1 ELSE Least(nd)) - i

DigitVal(c) == (CHOOSE k \in DOMAIN Digits : Digits[k] = c) - 1

RECURSIVE NatOf(_)
\* int() of a sequence of digits
NatOf(ds) ==
  IF ds = <<>> THEN 0
  ELSE 10 * NatOf(SubSeq(ds, 1, Len(ds) - 1)) + DigitVal(ds[Len(ds)])

\* a float that is not a whole number, by its literal
PFloatLit(chars) == [s |-> chars, n |-> 0, t |-> "float", xs |-> <<>>]

\* the lengths of the parts of -?(0|[1-9]\d*)(\.\d+)?([eE][-+]?\d+)?
IntLen(s, a) == IF a <= Len(s) /\ s[a] = "0" THEN 1 ELSE DigitRun(s, a)
FracLen(s, b) ==
  IF b <= Len(s) /\ s[b] = "." /\ DigitRun(s, b + 1) > 0
    THEN 1 + DigitRun(s, b + 1) ELSE 0
ExpDigits(s, c, d) ==
  IF c <= Len(s) /\ s[c] \in {"e", "E"} /\ DigitRun(s, d) > 0
    THEN d + DigitRun(s, d) - c ELSE 0
ExpLen(s, c) ==
  ExpDigits(s, c, IF c + 1 <= Len(s) /\ s[c + 1] \in {"-", "+"}
                    THEN c + 2 ELSE c + 1)

\* the number that begins at i, its digits at a, its fraction at b, its
\* exponent at c, and e the position after it
NumberValue(s, i, a, b, c, e, whole) ==
  IF c = b /\ e = c THEN Read(PInt(IF a > i THEN 0 - whole ELSE whole), b)
  ELSE IF e = c /\ \A j \in (b + 1)..(c - 1) : s[j] = "0"
    THEN Read(PFloat(IF a > i THEN 0 - whole ELSE whole), c)
  ELSE Read(PFloatLit(SubSeq(s, i, e - 1)), e)
NumberExp(s, i, a, b, c) ==
  NumberValue(s, i, a, b, c, c + ExpLen(s, c), NatOf(SubSeq(s, a, b - 1)))
NumberFrac(s, i, a, b) == NumberExp(s, i, a, b, b + FracLen(s, b))
NumberInt(s, i, a) ==
  IF IntLen(s, a) = 0 THEN Fail ELSE NumberFrac(s, i, a, a + IntLen(s, a))

\* the number at i
JsonNumber(s, i) == NumberInt(s, i, IF s[i] = "-" THEN i + 1 ELSE i)

\* a string as a value
StrValue(r) == IF r.ok THEN Read(PStr(r.v), r.i) ELSE Fail

RECURSIVE JsonValue(_, _)
RECURSIVE JsonMembers(_, _, _)
RECURSIVE JsonElements(_, _, _)

\* decoder.py JSONObject, after a member: "}" ends the object, "," brings
\* the next key
MemberNext(s, e, acc) ==
  IF e > Len(s) THEN Fail
  ELSE IF s[e] = "}" THEN Read(PDict(acc), e + 1)
  ELSE IF s[e] = "," THEN JsonMembers(s, SkipWs(s, e + 1), acc)
  ELSE Fail
\* a key that comes again keeps its place and takes the later value
MemberValue(s, k, v, acc) ==
  IF ~v.ok THEN Fail ELSE MemberNext(s, SkipWs(s, v.i), DictSet(acc, k.v, v.v))
MemberColon(s, k, c, acc) ==
  IF c > Len(s) \/ s[c] # ":" THEN Fail
  ELSE MemberValue(s, k, JsonValue(s, SkipWs(s, c + 1)), acc)
MemberKey(s, k, acc) ==
  IF ~k.ok THEN Fail ELSE MemberColon(s, k, SkipWs(s, k.i), acc)

\* decoder.py JSONObject: the members from the key at i on
JsonMembers(s, i, acc) ==
  IF i > Len(s) \/ s[i] # "\"" THEN Fail
  ELSE MemberKey(s, JsonString(s, i), acc)

ElementNext(s, e, acc) ==
  IF e > Len(s) THEN Fail
  ELSE IF s[e] = "]" THEN Read(PList(acc), e + 1)
  ELSE IF s[e] = "," THEN JsonElements(s, SkipWs(s, e + 1), acc)
  ELSE Fail
ElementValue(s, v, acc) ==
  IF ~v.ok THEN Fail ELSE ElementNext(s, SkipWs(s, v.i), Append(acc, v.v))

\* decoder.py JSONArray: the elements from the value at i on
JsonElements(s, i, acc) == ElementValue(s, JsonValue(s, i), acc)

ObjectFrom(s, j) ==
  IF j <= Len(s) /\ s[j] = "}" THEN Read(PDict(<<>>), j + 1)
  ELSE JsonMembers(s, j, <<>>)
ArrayFrom(s, j) ==
  IF j <= Len(s) /\ s[j] = "]" THEN Read(PList(<<>>), j + 1)
  ELSE JsonElements(s, j, <<>>)

\* scanner.py: the value that begins at position i
JsonValue(s, i) ==
  IF i > Len(s) THEN Fail
  ELSE IF s[i] = "\"" THEN StrValue(JsonString(s, i))
  ELSE IF s[i] = "{" THEN ObjectFrom(s, SkipWs(s, i + 1))
  ELSE IF s[i] = "[" THEN ArrayFrom(s, SkipWs(s, i + 1))
  ELSE IF StartsWith(s, i, <<"n", "u", "l", "l">>) THEN Read(PNone, i + 4)
  ELSE IF StartsWith(s, i, <<"t", "r", "u", "e">>) THEN Read(PBool(TRUE), i + 4)
  ELSE IF StartsWith(s, i, <<"f", "a", "l", "s", "e">>)
    THEN Read(PBool(FALSE), i + 5)
  ELSE IF StartsWith(s, i, <<"-", "I", "n", "f", "i", "n", "i", "t", "y">>)
    THEN Read(PFloatLit(<<"-", "i", "n", "f">>), i + 9)
  ELSE IF s[i] \in DigitSet \cup {"-"} THEN JsonNumber(s, i)
  ELSE IF StartsWith(s, i, <<"N", "a", "N">>) THEN Read(PNaN, i + 3)
  ELSE IF StartsWith(s, i, <<"I", "n", "f", "i", "n", "i", "t", "y">>)
    THEN Read(PFloatLit(<<"i", "n", "f">>), i + 8)
  ELSE Fail

\* one value, whitespace around it, nothing after it
WholeText(s, v) == IF v.ok /\ SkipWs(s, v.i) > Len(s) THEN v ELSE Fail

\* json.loads(s)
JsonLoads(s) == WholeText(s, JsonValue(s, SkipWs(s, 1)))

(***************************************************************************)
(* Pydantic models: model_validate of the data json.loads made, and        *)
(* model_dump_json.  A field is [name, type, required, default, enum],     *)
(* enum the members (name, value) of the field's enum class.               *)
(***************************************************************************)
Attr(name, type, required, default, enum) ==
  [name |-> name, type |-> type, enum |-> enum, required |-> required,
   default |-> default]

\* the value a field takes from the input x: [v, ok]
FieldValue(x, f) ==
  CASE f.type = "str" -> [v |-> x, ok |-> x.t = "str"]
    [] f.type = "Optional[str]" -> [v |-> x, ok |-> x.t \in {"str", "none"}]
    [] f.type = "List[Enum]" ->
         IF x.t = "list"
              /\ \A j \in DOMAIN x.xs :
                   x.xs[j].t = "str" /\ x.xs[j].s \in {m.body : m \in Range(f.enum)}
           THEN [v |-> PList([j \in DOMAIN x.xs |->
                                LET m == CHOOSE m \in Range(f.enum) :
                                           m.body = x.xs[j].s
                                IN PEnum(m.name, m.body)]),
                 ok |-> TRUE]
           ELSE [v |-> x, ok |-> FALSE]
    [] f.type = "Any" -> [v |-> x, ok |-> TRUE]
    [] OTHER -> [v |-> x, ok |-> FALSE]

NmTitle == <<"T", "i", "t", "l", "e">>
NmDates == <<"D", "a", "t", "e", "s">>
NmIndexIntro == <<"I", "n", "d", "e", "x", "I", "n", "t", "r", "o">>
NmIntro == <<"I", "n", "t", "r", "o">>
NmContent == <<"C", "o", "n", "t", "e", "n", "t">>
NmDateOrder == <<"D", "a", "t", "e", "O", "r", "d", "e", "r">>
NmLocation == <<"L", "o", "c", "a", "t", "i", "o", "n">>
NmCost == <<"C", "o", "s", "t">>
NmCategories == <<"C", "a", "t", "e", "g", "o", "r", "i", "e", "s">>
DateNotSpecified ==
  <<"D", "a", "t", "e", " ", "n", "o", "t", " ", "s", "p", "e", "c", "i",
    "f", "i", "e", "d">>
ConferencesValue ==
  <<"C", "o", "n", "f", "e", "r", "e", "n", "c", "e", "s", " ", "a", "n",
    "d", " ", "N", "e", "t", "w", "o", "r", "k", "i", "n", "g", " ", "E",
    "v", "e", "n", "t", "s">>
EducationValue ==
  <<"E", "d", "u", "c", "a", "t", "i", "o", "n", " ", "T", "r", "a", "i",
    "n", "i", "n", "g", " ", "a", "n", "d", " ", "C", "P", "D">>
CulturalValue ==
  <<"C", "u", "l", "t", "u", "r", "a", "l", " ", "E", "v", "e", "n", "t",
    "s", " ", "a", "n", "d", " ", "E", "x", "h", "i", "b", "i", "t", "i",
    "o", "n", "s">>

\* dbcore/enums.py
EventCategoryEnum ==
  << Line("CONFERENCES_AND_NETWORKING_EVENTS", ConferencesValue),
     Line("EDUCATION_TRAINING_AND_CPD", EducationValue),
     Line("CULTURAL_EVENTS_AND_EXHIBITIONS", CulturalValue) >>

\* if self.Categories is None: self.Categories = []
CategoriesDefault(self) ==
  IF Item(self, NmCategories).t = "none"
    THEN DictSet(self, NmCategories, PList(<<>>)) ELSE self
\* if self.Dates is None: self.Dates = "Date not specified"
DatesDefault(self) ==
  IF Item(self, NmDates).t = "none"
    THEN DictSet(self, NmDates, PStr(DateNotSpecified)) ELSE self

\* EventOutput._set_defaults, the after-validator
_set_defaults(self) == DatesDefault(CategoriesDefault(self))

\* the after-validator of a model class, run on the fields of the instance
After(after, self) == IF after = "_set_defaults" THEN _set_defaults(self) ELSE self

\* the value of field f made from the dict data: the default when the key
\* is missing and the field is not required
FieldOf(data, f) ==
  IF f.name \in Keys(data.xs) THEN FieldValue(PyGetItem(data, f.name), f)
  ELSE [v |-> f.default, ok |-> ~f.required]

\* model.model_validate(data): [v, ok], v the instance as the dict of its
\* fields in the order of the class; keys that are no field are ignored
ModelValidate(data, model) ==
  IF data.t # "dict" THEN [v |-> PNone, ok |-> FALSE]
  ELSE IF \E j \in DOMAIN model.fields : ~FieldOf(data, model.fields[j]).ok
    THEN [v |-> PNone, ok |-> FALSE]
  ELSE [v |-> PDict(After(model.after,
                          [j \in DOMAIN model.fields |->
                             Line(model.fields[j].name,
                                  FieldOf(data, model.fields[j]).v)])),
        ok |-> TRUE]

\* a character inside a JSON string
EscapeChar(c) ==
  CASE c = "\"" -> <<"\\", "\"">>
    [] c = "\\" -> <<"\\", "\\">>
    [] c = "\n" -> <<"\\", "n">>
    [] c = "\t" -> <<"\\", "t">>
    [] c = "\r" -> <<"\\", "r">>
    [] c = "\f" -> <<"\\", "f">>
    [] OTHER -> <<c>>

JsonQuote(chars) ==
  <<"\"">> \o Flatten([j \in DOMAIN chars |-> EscapeChar(chars[j])]) \o <<"\"">>

RECURSIVE JsonDump(_)
\* model_dump_json(): the JSON text of an instance and of its fields
JsonDump(x) ==
  CASE x.t = "none" -> <<"n", "u", "l", "l">>
    [] x.t = "str" -> JsonQuote(x.s)
    [] x.t = "enum" -> JsonQuote(x.xs)
    [] x.t = "list" ->
         <<"[">> \o JoinComma([j \in DOMAIN x.xs |-> JsonDump(x.xs[j])]) \o <<"]">>
    [] x.t = "dict" ->
         <<"{">>
           \o JoinComma([j \in DOMAIN x.xs |->
                           JsonQuote(x.xs[j].name) \o <<":">>
                             \o JsonDump(x.xs[j].body)])
           \o <<"}">>

\* the characters of raw_text the error message quotes: raw_text[:500]
PrefixLen == 500
Prefix(chars) ==
  IF Len(chars) <= PrefixLen THEN chars ELSE SubSeq(chars, 1, PrefixLen)

\* step 2: model.model_validate(data)
Instance(instance) ==
  IF ~instance.ok THEN Threw(ValidationError("fails Pydantic validation", <<>>))
  ELSE Gave(instance.v)
\* step 1: data = json.loads(raw_text.strip())
Validated(raw, data, model) ==
  IF ~data.ok THEN Threw(ValidationError("not valid JSON", Prefix(raw)))
  ELSE Instance(ModelValidate(data.v, model))

\* OutputValidator.validate(raw_text, model)
Validate(raw_text, model) ==
  IF raw_text.t # "str" THEN Threw(AttributeError)
  ELSE Validated(raw_text.s, JsonLoads(Strip(raw_text.s, PyWhitespace)), model)

NmEventCategoryEnum ==
  <<"E", "v", "e", "n", "t", "C", "a", "t", "e", "g", "o", "r", "y", "E", "n",
    "u", "m">>
OptionalStrNames ==
  <<NmTitle, NmDates, NmIndexIntro, NmIntro, NmContent, NmDateOrder,
    NmLocation, NmCost>>

\* gemini_ai/generate_content.py: class EventOutput and its JSON schema
EventOutput ==
  ModelClass(
    Schema(ObjectNode([j \in DOMAIN OptionalStrNames |->
                         Field(OptionalStrNames[j], AnyOfNode(<<StringT, NullT>>))]
                        \o <<Field(NmCategories,
                                   ArrayNode(RefNode(RefTo(NmEventCategoryEnum))))>>,
                      OptionalStrNames),
           <<Field(NmEventCategoryEnum,
                   EnumNode("string", [j \in DOMAIN EventCategoryEnum |->
                                         EStr(EventCategoryEnum[j].body)]))>>),
    [j \in DOMAIN OptionalStrNames |->
       Attr(OptionalStrNames[j], "Optional[str]", TRUE, PNone, <<>>)]
      \o <<Attr(NmCategories, "List[Enum]", FALSE, PList(<<>>), EventCategoryEnum)>>,
    "_set_defaults")

\* class Event(BaseModel): t: str | None; d: str
EventClass ==
  ModelClass(EventModel,
             <<Attr(<<"t">>, "Optional[str]", TRUE, PNone, <<>>),
               Attr(<<"d">>, "str", TRUE, PNone, <<>>)>>, "")

\* the values of a field of the type
ValuesOf(f) ==
  CASE f.type = "str" ->
         {PStr(<<>>), PStr(<<"x", "\"", "y", "\\">>), PStr(<<"{", "\n", "}">>)}
    [] f.type = "Optional[str]" -> {PNone, PStr(<<"1", "2">>)}
    [] f.type = "Any" -> {PNone, PInt(1)}
    [] f.type = "List[Enum]" ->
         { PList(<<>>),
           PList(<<PEnum(f.enum[1].name, f.enum[1].body)>>),
           PList(<<PEnum(f.enum[3].name, f.enum[3].body),
                   PEnum(f.enum[2].name, f.enum[2].body)>>) }

\* instances of the classes: EventOutput with the fields between Dates and
\* Categories all None
Instances_(model) ==
  IF model = EventClass
    THEN {PDict(<<Line(<<"t">>, t), Line(<<"d">>, d)>>) :
            t \in ValuesOf(model.fields[1]), d \in ValuesOf(model.fields[2])}
  ELSE {PDict(<<Line(NmTitle, t), Line(NmDates, d)>>
                \o [j \in 1..6 |-> Line(OptionalStrNames[j + 2], PNone)]
                \o <<Line(NmCategories, c)>>) :
          t \in ValuesOf(model.fields[1]), d \in ValuesOf(model.fields[2]),
          c \in ValuesOf(model.fields[9])}

Fence == <<"~", "~", "~">>
\* how the text of a value reaches validate(): as it is, inside whitespace,
\* inside a markdown fence, after or before other text, cut short, twice
Wrappings == {"as is", "spaces", "form feed", "fence", "prose before",
              "prose after", "cut", "twice", "key added", "key dropped"}
WrapText(w, text, v) ==
  CASE w = "as is" -> text
    [] w = "spaces" -> <<" ", "\n">> \o text \o <<"\r", "\n", "\t">>
    [] w = "form feed" -> <<"\f">> \o text \o <<"\f">>
    [] w = "fence" ->
         Fence \o <<"j", "s", "o", "n", "\n">> \o text \o <<"\n">> \o Fence
    [] w = "prose before" -> <<"O", "K", ":", " ">> \o text
    [] w = "prose after" -> text \o <<" ", "d", "o", "n", "e">>
    [] w = "cut" -> SubSeq(text, 1, Len(text) - 1)
    [] w = "twice" -> text \o text
    [] w = "key added" ->
         JsonDump(PDict(Append(v.xs, Line(<<"z">>, PStr(<<>>)))))
    [] w = "key dropped" -> JsonDump(PDict(Tail(v.xs)))
Wrapped(w, v) == WrapText(w, JsonDump(v), v)

\* texts that are not made from a value
OtherTexts ==
  { <<>>, <<"[", "]">>, <<"n", "u", "l", "l">>, <<"N", "a", "N">>,
    <<"{", "}">>, <<"{", "\"", "d", "\"", ":", "N", "a", "N", "}">>,
    <<"{", "\"", "d", "\"", ":", "1", "}">>,
    [j \in 1..(PrefixLen + 100) |-> "x"] }

\* validator.validate(raw_text, model); v is the value the text was made
\* from, None when it was made from none
validate(t, raw_text, model, v) ==
  /\ op[t].name = ""
  /\ op' = [op EXCEPT ![t] = [NoOp EXCEPT !.name = "validate", !.model = model,
                                          !.text = raw_text, !.value = v]]
  /\ result' = [result EXCEPT ![t] = Validate(PStr(raw_text), model)]
  /\ UNCHANGED <<rate, client, llm, sent, gram>>

\* one call of the validator per behaviour
NextVal ==
  \/ \E model \in {EventOutput, EventClass} :
       \E v \in Instances_(model), w \in Wrappings :
         validate(1, Wrapped(w, v), model, v)
  \/ \E model \in {EventOutput, EventClass}, x \in OtherTexts :
       validate(1, x, model, PNone)
SpecVal == Init /\ [][NextVal]_vars

\* a text is JSON: json.loads reads it, and reads no NaN or Infinity in it
RECURSIVE Finite(_)
Finite(x) ==
  /\ x.t # "nan"
  /\ x.t = "float" => x.s \notin {<<"i", "n", "f">>, <<"-", "i", "n", "f">>}
  /\ x.t = "list" => \A j \in DOMAIN x.xs : Finite(x.xs[j])
  /\ x.t = "dict" => \A j \in DOMAIN x.xs : Finite(x.xs[j].body)
FiniteValue(r) == r.ok /\ Finite(r.v)
IsJson(text) == FiniteValue(JsonLoads(text))

\* C19: validate(raw_text, model) returns a value only when raw_text as a
\* whole parses as JSON and the parsed data passes the model's validation;
\* in every other case it raises ValidationError; on a parse failure the
\* error carries a prefix of raw_text of at most 500 characters.
C19_StrictParse ==
  \A t \in Threads :
    op[t].name = "validate" =>
      LET raw == op[t].text
          passes == IsJson(raw) /\ ModelValidate(JsonLoads(raw).v, op[t].model).ok
      IN /\ result[t].kind = "return" => passes
         /\ ~passes => /\ result[t].kind = "raise"
                       /\ result[t].err.type = "ValidationError"
         /\ ~IsJson(raw) /\ result[t].kind = "raise" =>
              /\ Len(result[t].err.at) <= 500
              /\ result[t].err.at = SubSeq(raw, 1, Len(result[t].err.at))

\* C20: round trip: for every value v of a target model, serialising v to
\* JSON and passing the text through validate with the same model yields
\* a value equal to v.
C20_RoundTrip ==
  \A t \in Threads :
    op[t].name = "validate" /\ op[t].value.t = "dict"
      /\ op[t].text = JsonDump(op[t].value) =>
        result[t] = Gave(op[t].value)

(***************************************************************************)
(* StructuredLLM (api.py).  llm is "none" before the constructor ran,      *)
(* "ready" when it returned and "failed" when it raised; the instance owns *)
(* the client, generator 1 and the validator.                              *)
(***************************************************************************)
_DEFAULT_SYSTEM_PROMPT == <<"You are a structured data extraction assistant.">>

\* _build_prompt(system_prompt, user_prompt)
_build_prompt(system_prompt, user_prompt) ==
  <<"<|system|>", "\n">> \o system_prompt \o <<"\n", "<|user|>", "\n">>
    \o user_prompt \o <<"\n", "<|assistant|>", "\n">>

\* the constructor probing the server whatever verify_server_on_init is
ConstructAlwaysProbes(c, server_url, verify, reply) ==
  LET nc == NewClient(server_url)
      probe == HealthCheck(nc, reply)
  IN IF server_url = <<>>
       THEN [client |-> c, llm |-> "failed", sent |-> <<>>,
             res |-> Threw(ServerConfigurationError("server_url must not be empty"))]
     ELSE IF probe.res = Gave(PBool(TRUE))
       THEN [client |-> nc, llm |-> "ready", sent |-> probe.sent,
             res |-> Gave(PNone)]
     ELSE [client |-> nc, llm |-> "failed", sent |-> probe.sent,
           res |-> Threw(ServerConfigurationError("cannot reach the server"))]

\* StructuredLLM(server_url, verify_server_on_init=verify), c the client
\* before it: the client and the instance after it, the requests made and
\* how it ended
Construct(c, server_url, verify, reply) ==
  LET nc == NewClient(server_url)
      probe == HealthCheck(nc, reply)
  IN IF server_url = <<>>
       THEN [client |-> c, llm |-> "failed", sent |-> <<>>,
             res |-> Threw(ServerConfigurationError("server_url must not be empty"))]
     ELSE IF ~verify
       THEN [client |-> nc, llm |-> "ready", sent |-> <<>>, res |-> Gave(PNone)]
     ELSE IF probe.res = Gave(PBool(TRUE))
       THEN [client |-> nc, llm |-> "ready", sent |-> probe.sent,
             res |-> Gave(PNone)]
     ELSE [client |-> nc, llm |-> "failed", sent |-> probe.sent,
           res |-> Threw(ServerConfigurationError("cannot reach the server"))]

\* generate() after complete(): raw_output[:300], then validate()
Completed(r, model) ==
  IF r.res.kind = "raise" THEN r
  ELSE IF r.res.value.t = "dict" THEN [sent |-> r.sent, res |-> Threw(TypeError)]
  ELSE [sent |-> r.sent, res |-> Validate(r.res.value, model)]

\* generate() turning a failure of the grammar generator into a
\* ValidationError
GenerateRestWrapping(c, o, compiled, reply) ==
  IF compiled.kind = "raise"
    THEN [sent |-> <<>>, res |-> Threw(ValidationError(compiled.err.what, <<>>))]
  ELSE Completed(Complete(c, _build_prompt(_DEFAULT_SYSTEM_PROMPT, o.text),
                          PGrammar(compiled.grammar),
                          PFloat(_DEFAULT_TEMPERATURE), o.max_tokens, o.extra,
                          reply), o.model)

\* generate() from step 3 on: the completion request and the validation.
\* o is the call, compiled how the grammar generator ended
GenerateRest(c, o, compiled, reply) ==
  IF compiled.kind = "raise" THEN [sent |-> <<>>, res |-> Threw(compiled.err)]
  ELSE Completed(Complete(c, _build_prompt(_DEFAULT_SYSTEM_PROMPT, o.text),
                          PGrammar(compiled.grammar),
                          PFloat(_DEFAULT_TEMPERATURE), o.max_tokens, o.extra,
                          reply), o.model)

\* no call of thread t is in progress
Idle(t) == op[t].name = "" \/ result[t] # NoResult
\* thread t is about to call self._grammar_gen.generate(model)
Compiling(t) ==
  /\ op[t].name \in {"generate", "get_grammar"}
  /\ result[t] = NoResult
  /\ ~Running(t)
  /\ outcome[t] = NoOutcome

StructuredLLM(t, server_url, verify, reply) ==
  LET r == Construct(client, server_url, verify, reply)
  IN /\ llm = "none"
     /\ client' = r.client
     /\ llm' = r.llm
     /\ op' = [op EXCEPT ![t] =
                 [NoOp EXCEPT !.name = "StructuredLLM", !.url = server_url,
                              !.verify = verify,
                              !.reply = IF r.sent = <<>> THEN NoReply ELSE reply]]
     /\ sent' = [sent EXCEPT ![t] = r.sent]
     /\ result' = [result EXCEPT ![t] = r.res]
     /\ UNCHANGED <<rate, gram>>

\* llm.generate(model, prompt, max_tokens=, extra_llm_params=): the call
llm_generate(t, model, prompt, max_tokens, extra_llm_params) ==
  /\ llm = "ready"
  /\ Idle(t)
  /\ op' = [op EXCEPT ![t] =
              [NoOp EXCEPT !.name = "generate", !.model = model, !.text = prompt,
                           !.max_tokens = max_tokens, !.extra = extra_llm_params]]
  /\ sent' = [sent EXCEPT ![t] = <<>>]
  /\ result' = [result EXCEPT ![t] = NoResult]
  /\ outcome' = [outcome EXCEPT ![t] = NoOutcome]
  /\ UNCHANGED <<rate, client, llm, heap, extra_rules, defs, stack, ret, call,
                 entered, mem>>

\* generate() after the grammar generator ended: complete() and validate()
llm_generate_complete(t, reply) ==
  LET r == GenerateRest(client, op[t], outcome[t], reply)
  IN /\ op[t].name = "generate"
     /\ result[t] = NoResult
     /\ Ended(t)
     /\ op' = [op EXCEPT ![t].reply = IF r.sent = <<>> THEN NoReply ELSE reply]
     /\ sent' = [sent EXCEPT ![t] = r.sent]
     /\ result' = [result EXCEPT ![t] = r.res]
     /\ UNCHANGED <<rate, client, llm, gram>>

\* llm.get_grammar(model): the call
get_grammar(t, model) ==
  /\ llm = "ready"
  /\ Idle(t)
  /\ op' = [op EXCEPT ![t] = [NoOp EXCEPT !.name = "get_grammar", !.model = model]]
  /\ sent' = [sent EXCEPT ![t] = <<>>]
  /\ result' = [result EXCEPT ![t] = NoResult]
  /\ outcome' = [outcome EXCEPT ![t] = NoOutcome]
  /\ UNCHANGED <<rate, client, llm, heap, extra_rules, defs, stack, ret, call,
                 entered, mem>>

\* get_grammar() returns what the grammar generator returned, or raises
\* what it raised
get_grammar_return(t) ==
  /\ op[t].name = "get_grammar"
  /\ result[t] = NoResult
  /\ Ended(t)
  /\ result' = [result EXCEPT ![t] =
                  IF outcome[t].kind = "return"
                    THEN Gave(PGrammar(outcome[t].grammar))
                    ELSE Threw(outcome[t].err)]
  /\ UNCHANGED <<rate, client, llm, op, sent, gram>>

\* llm.close(), also the exit of "with StructuredLLM(...)"
close(t) ==
  /\ llm = "ready"
  /\ Idle(t)
  /\ client' = Closed(client)
  /\ op' = [op EXCEPT ![t] = [NoOp EXCEPT !.name = "close", !.was = client.http]]
  /\ sent' = [sent EXCEPT ![t] = <<>>]
  /\ result' = [result EXCEPT ![t] = Gave(PNone)]
  /\ UNCHANGED <<rate, llm, gram>>

\* class Any_(BaseModel): u: Any
AnyClass == ModelClass(UntypedModel, <<Attr(<<"u">>, "Any", TRUE, PNone, <<>>)>>, "")

ApiUrls == Urls \cup {<<>>}
ApiModels == {EventClass, EventOutput, AnyClass}
ApiExtras == {<<>>, <<Line("seed", PInt(7))>>}
ApiReplies ==
  Replies \cup {Response(200, TRUE, PDict(<<Line(Content, PStr(JsonDump(v)))>>)) :
                  v \in Instances_(EventClass)}

\* one caller using one StructuredLLM
NextApi ==
  \/ \E u \in ApiUrls, vf \in BOOLEAN, r \in Replies : StructuredLLM(1, u, vf, r)
  \/ \E m \in ApiModels, p \in Prompts, mx \in MaxTokens, ex \in ApiExtras :
       llm_generate(1, m, p, mx, ex)
  \/ \E m \in ApiModels : get_grammar(1, m)
  \/ /\ Compiling(1)
     /\ generate(1, 1, op[1].model.schema)
  \/ Step(1)
  \/ \E r \in ApiReplies : llm_generate_complete(1, r)
  \/ get_grammar_return(1)
  \/ close(1)
SpecApi == Init /\ [][NextApi]_vars

\* Two threads sharing one StructuredLLM: thread 1 calls generate() once,
\* thread 2 calls get_grammar() once, before or after a close().  Before
\* that, thread 1 compiles its model alone on a generator of its own
\* (instance 2) and keeps the outcome.
ConcClasses == {EventOutput, EventClass}
ConcReplies == {HttpxError("ConnectError"), Response(500, FALSE, PNone)}

NextApiConc ==
  \/ \E m \in ConcClasses :
       /\ mem = NoMem /\ call[1] = NoCall
       /\ generate(1, 2, m.schema)
  \/ /\ call[1].inst = 2
     /\ Remember(1)
  \/ \E u \in Urls :
       /\ mem # NoMem
       /\ StructuredLLM(1, u, FALSE, NoReply)
  \/ \E m \in ConcClasses, p \in Prompts, mx \in MaxTokens :
       /\ op[1].name = "StructuredLLM"
       /\ m.schema = mem.model
       /\ llm_generate(1, m, p, mx, <<>>)
  \/ \E m \in ConcClasses :
       /\ op[2].name \in {"", "close"}
       /\ get_grammar(2, m)
  \/ /\ op[2].name = ""
     /\ close(2)
  \/ \E t \in Threads :
       /\ Compiling(t)
       /\ generate(t, 1, op[t].model.schema)
  \/ \E t \in Threads : Step(t)
  \/ \E r \in ConcReplies : llm_generate_complete(1, r)
  \/ get_grammar_return(2)

SpecApiConc == Init /\ [][NextApiConc]_vars

\* how a caller of the library sees the outcome of a compile
Seen(o) == IF o.kind = "return" THEN Gave(PGrammar(o.grammar)) ELSE Threw(o.err)

\* C18: get_grammar(model) is pure: it sends no request, works on a closed
\* instance, returns exactly the grammar generate() sends for the same
\* model (the grammar of the model compiled alone), and a concurrent
\* generate() is not affected by it: it ends, and sends the grammar, as it
\* does alone.
C18_GetGrammarPure ==
  /\ \A t \in Threads :
       op[t].name = "get_grammar" =>
         /\ sent[t] = <<>>
         /\ result[t] # NoResult /\ op[t].model.schema = mem.model =>
              result[t] = Seen(mem.outcome)
  /\ \A t \in Threads :
       op[t].name = "generate" /\ Ended(t) =>
         /\ outcome[t] = mem.outcome
         /\ sent[t] # <<>> => Item(sent[t][1].body, "grammar") = PGrammar(mem.outcome.grammar)

\* the requests of thread t are POSTs to the completion endpoint
OnlyCompletionPosts(t) ==
  \A j \in DOMAIN sent[t] :
    /\ sent[t][j].method = "POST"
    /\ sent[t][j].url = client.base_url \o <<"/completion">>

\* C12 (as stated): each StructuredLLM.generate() invocation performs
\* exactly one POST to the completion endpoint, whatever the outcome of the
\* request and of the validation.
C12_ExactlyOnePost ==
  \A t \in Threads :
    op[t].name = "generate" /\ result[t] # NoResult =>
      Len(sent[t]) = 1 /\ OnlyCompletionPosts(t)

\* C12 (amended): each generate() invocation performs at most one POST to
\* the completion endpoint, and nothing else; it performs exactly one when
\* the grammar was compiled and the client is not closed, and none when
\* the grammar generator raised or the client is closed.
C12_AtMostOnePost ==
  \A t \in Threads :
    op[t].name = "generate" =>
      /\ Len(sent[t]) <= 1
      /\ OnlyCompletionPosts(t)
      /\ result[t] # NoResult =>
           (Len(sent[t]) = 1 <=> outcome[t].kind = "return" /\ client.http = "open")

\* a generate() call that made its request and then failed validation
C12_Witness ==
  /\ op[1].name = "generate"
  /\ result[1].kind = "raise"
  /\ result[1].err.type = "ValidationError"
  /\ Len(sent[1]) = 1

\* C16: constructing StructuredLLM fails fast: an empty server_url raises
\* ServerConfigurationError before any network activity; with
\* verify_server_on_init true a failing health probe raises
\* ServerConfigurationError; with verify_server_on_init false no request is
\* made and construction succeeds for any non-empty server_url.
C16_FailFast ==
  \A t \in Threads :
    op[t].name = "StructuredLLM" =>
      /\ op[t].url = <<>> =>
           /\ result[t].kind = "raise"
           /\ result[t].err.type = "ServerConfigurationError"
           /\ sent[t] = <<>>
           /\ client = NoClient
      /\ op[t].url # <<>> /\ op[t].verify
           /\ ~(op[t].reply.kind = "response" /\ op[t].reply.status = 200) =>
           /\ result[t].kind = "raise"
           /\ result[t].err.type = "ServerConfigurationError"
           /\ llm = "failed"
      /\ op[t].url # <<>> /\ ~op[t].verify =>
           /\ sent[t] = <<>>
           /\ result[t] = Gave(PNone)
           /\ llm = "ready"

\* a StructuredLLM constructed without the probe
C16_Witness ==
  /\ op[1].name = "StructuredLLM"
  /\ op[1].url # <<>>
  /\ ~op[1].verify
  /\ sent[1] = <<>>
  /\ result[1] = Gave(PNone)

\* C17: close() is idempotent: after any sequence of operations every
\* close() (or context-manager exit) returns without error and leaves the
\* instance closed, and a close() of a closed instance changes nothing.
C17_CloseIdempotent ==
  [][\A t \in Threads :
       op'[t] # op[t] /\ op'[t].name = "close" =>
         /\ result'[t] = Gave(PNone)
         /\ client'.http = "closed"
         /\ client'.base_url = client.base_url
         /\ client.http = "closed" => client' = client /\ llm' = llm /\ gram' = gram]_vars

\* a close() of an instance that was closed before
C17_Witness ==
  /\ op[1].name = "close"
  /\ op[1].was = "closed"
  /\ client.http = "closed"
  /\ result[1] = Gave(PNone)

\* what complete() gave the generate() call of thread t
Answer(t) ==
  Complete(client, _build_prompt(_DEFAULT_SYSTEM_PROMPT, op[t].text),
           PGrammar(outcome[t].grammar), PFloat(_DEFAULT_TEMPERATURE),
           op[t].max_tokens, op[t].extra, op[t].reply).res

\* C21: generate() runs compile grammar -> build prompt -> complete ->
\* validate and stops at the first failure: a request is sent only after
\* the grammar compiled and carries that grammar and the built prompt, the
\* validator runs only on what complete() returned, and the error of the
\* failing stage reaches the caller unmodified.
C21_StagesInOrder ==
  \A t \in Threads :
    op[t].name = "generate" /\ result[t] # NoResult =>
      /\ outcome[t].kind = "raise" =>
           sent[t] = <<>> /\ result[t] = Threw(outcome[t].err)
      /\ sent[t] # <<>> =>
           /\ outcome[t].kind = "return"
           /\ Item(sent[t][1].body, "grammar") = PGrammar(outcome[t].grammar)
           /\ Item(sent[t][1].body, "prompt") =
                _build_prompt(_DEFAULT_SYSTEM_PROMPT, op[t].text)
      /\ outcome[t].kind = "return" /\ Answer(t).kind = "raise" =>
           result[t] = Answer(t)
      /\ result[t].kind = "return" \/ result[t].err.type = "ValidationError" =>
           /\ outcome[t].kind = "return"
           /\ Answer(t).kind = "return"
           /\ result[t] = Validate(Answer(t).value, op[t].model)

\* a generate() call whose request failed: the client's error is the result
C21_Witness ==
  /\ op[1].name = "generate"
  /\ outcome[1].kind = "return"
  /\ Len(sent[1]) = 1
  /\ result[1].kind = "raise"
  /\ result[1].err.type = "LlamaCppClientError"

\* the error kinds of the library: the subclasses of StructuredLLMError
\* that generate() documents
LibraryErrors == {"GrammarGenerationError", "LlamaCppClientError", "ValidationError"}

\* C22: every generate() call ends by returning an instance of the target
\* model or by raising GrammarGenerationError, LlamaCppClientError or
\* ValidationError; no other exception escapes, for any server response
\* and in any lifecycle state.
C22_OnlyLibraryErrors ==
  \A t \in Threads :
    op[t].name = "generate" /\ result[t] # NoResult =>
      \/ result[t].kind = "return" /\ result[t].value.t = "dict"
      \/ result[t].kind = "raise" /\ result[t].err.type \in LibraryErrors

(***************************************************************************)
(* Accepted texts as JSON.  Models whose enum values or keys hold a        *)
(* character that JSON writes with an escape.                              *)
(***************************************************************************)
\* {s: Literal['a"b']}
QuoteEnumModel ==
  Schema(ObjectNode(<<Field(<<"s">>, EnumNode("string", <<EStr(<<"a", "\"", "b">>)>>))>>,
                    <<<<"s">>>>), <<>>)
\* {s: Literal['a\\x']}: a backslash followed by x
BackslashEnumModel ==
  Schema(ObjectNode(<<Field(<<"s">>, EnumNode("string", <<EStr(<<"a", "\\", "x">>)>>))>>,
                    <<<<"s">>>>), <<>>)
\* {s: Literal['a\nb']}: a line feed in the value
ControlEnumModel ==
  Schema(ObjectNode(<<Field(<<"s">>, EnumNode("string", <<EStr(<<"a", "\n", "b">>)>>))>>,
                    <<<<"s">>>>), <<>>)
\* a field whose key (alias) is k"q
QuoteKeyModel ==
  Schema(ObjectNode(<<Field(<<"k", "\"", "q">>, StringT)>>,
                    <<<<"k", "\"", "q">>>>), <<>>)

EscapeModels == {QuoteEnumModel, BackslashEnumModel, ControlEnumModel, QuoteKeyModel}

\* {o: dict[str, str]}: {'type': 'object', 'additionalProperties':
\* {'type': 'string'}}; the generator reads no "additionalProperties"
DictStrModel ==
  Schema(ObjectNode(<<Field(<<"o">>,
                       [TypeNode("object") EXCEPT
                          !.has = {"type", "additionalProperties"}])>>,
                    <<<<"o">>>>), <<>>)

JsonModels == FixedModels \cup EscapeModels \cup {DictStrModel}

\* One call on a new generator, over the fixed models, the models with
\* characters to escape and the model with a dict field.
NextJson ==
  \/ \E m \in JsonModels :
       /\ call[1] = NoCall
       /\ generate(1, 1, m)
  \/ Step(1)

SpecJson == Init /\ [][NextJson]_vars

\* a text of the preamble rules string, integer and number in the place
\* of each such value
SampleOf(piece) ==
  CASE piece = "<string>" -> <<"\"", "s", "\"">>
    [] piece \in {"<integer>", "<number>"} -> <<"1">>
    [] OTHER -> <<piece>>
Sample(text) == Flatten([j \in DOMAIN text |-> SampleOf(text[j])])

\* C23: every text accepted by the root rule of a compiled grammar is
\* syntactically valid JSON, also for an enum string value or an object
\* key that holds a double quote, a backslash or a control character:
\* json.loads of an accepted text never fails.
C23_AcceptedIsJson ==
  \A t \in Threads :
    ReturnedBy(t) =>
      \A text \in GrammarLang(Grammar(t)) : JsonLoads(Sample(text)).ok

(***************************************************************************)
(* Reuse of one generator.  Thread 2 compiles a model on a new generator   *)
(* (instance 2); after that thread 1 makes any sequence of calls on        *)
(* instance 1 and keeps the record of an earlier call.                     *)
(***************************************************************************)
\* {x: N} with class N: u: Any -- the compile raises inside the body of N,
\* after the rule name of N was reserved
BrokenDefModel ==
  Schema(ObjectNode(<<Field(<<"x">>, RefNode(RefTo(<<"N">>)))>>, <<<<"x">>>>),
         <<Field(<<"N">>, ObjectNode(<<Field(<<"u">>, Node0)>>, <<<<"u">>>>))>>)

ReuseModels ==
  {SelfRefModel, BrokenDefModel, EventModel, MutualModel, TagsModel, CollideModel}

NextReuse ==
  \/ \E m \in ReuseModels :
       /\ call[2] = NoCall
       /\ generate(2, 2, m)
  \/ \E m \in ReuseModels :
       /\ Ended(2)
       /\ generate(1, 1, m)
  \/ \E t \in Threads : Step(t)
  \/ /\ Ended(2)
     /\ Remember(1)

SpecReuse == Init /\ [][NextReuse]_vars

\* C24: a generator is reusable across sequential calls: after any
\* sequence of earlier generate() calls on the instance, also calls that
\* raised part-way through the compile, generate(m) ends as it ends on a
\* new instance, and every helper rule of the output is the rule of a
\* definition of m.
C24_Reusable ==
  Ended(1) /\ Ended(2) /\ call[1].model = call[2].model =>
    /\ outcome[1] = outcome[2]
    /\ ReturnedBy(1) =>
         \A j \in DOMAIN HelperLines(Grammar(1)) :
           \E d \in ReachableDefs(call[1].model) :
             HelperLines(Grammar(1))[j].name = _rule_name_for_model(d)

\* instance 1 compiles SelfRefModel after a call that raised inside the
\* definition of the same name
C24_Witness ==
  /\ mem.inst = 1
  /\ mem.model = BrokenDefModel
  /\ mem.outcome.kind = "raise"
  /\ ReturnedBy(1) /\ ReturnedBy(2)
  /\ call[1].model = SelfRefModel
  /\ call[2].model = SelfRefModel
  /\ HelperLines(Grammar(1)) # <<>>

\* C25: health_check() falls back to a GET on the server root: when
\* GET /health is answered 404 (the route does not exist), a second
\* request GET / is issued.
C25_FallbackToRoot ==
  \A t \in Threads :
    /\ op[t].name = "health_check"
    /\ op[t].reply.kind = "response"
    /\ op[t].reply.status = 404
    => /\ Len(sent[t]) = 2
       /\ sent[t][2].method = "GET"
       /\ sent[t][2].url = client.base_url \o <<"/">>

\* C26: a field typed dict[str, X] compiles to a rule that accepts JSON
\* objects with arbitrary string keys and X-typed values: for
\* {o: dict[str, str]} the text {"o":{<string>:<string>}} with one
\* key/value pair is accepted.
C26_DictAccepted ==
  \A t \in Threads :
    Ended(t) /\ call[t].model = DictStrModel =>
      /\ ReturnedBy(t)
      /\ <<"{", "\"", "o", "\"", ":", "{", "<string>", ":", "<string>", "}", "}">>
           \in GrammarLang(Grammar(t))

\* the calls of _resolve_ref of thread t that are inside the recursive
\* compile of their definition
InDefinition(t) ==
  {k \in DOMAIN stack[t] : stack[t][k].fn = "_resolve_ref" /\ stack[t][k].pc = "store"}

\* C27: placeholder protocol of _resolve_ref: while the body of a
\* definition is compiled, its rule name is in _extra_rules with the
\* placeholder body; in every grammar returned, each helper rule is the
\* rule of a definition, compiled from it, and none has the placeholder
\* body.
C27_PlaceholderProtocol ==
  \A t \in Threads :
    /\ \A k \in InDefinition(t) :
         LET rules == heap[extra_rules[call[t].inst]]
             safe == stack[t][k].safe
         IN safe \in Keys(rules) /\ Item(rules, safe) = Placeholder
    /\ ReturnedBy(t) =>
         \A j \in DOMAIN HelperLines(Grammar(t)) :
           LET line == HelperLines(Grammar(t))[j]
           IN /\ line.body # Placeholder
              /\ \E d \in ReachableDefs(call[t].model) :
                   LET def == DictGet(call[t].model.defs, d)[1]
                   IN /\ line.name = _rule_name_for_model(d)
                      /\ Branch(def) = "object" =>
                           KeysOfExpr(line.body) = NamesOf(LoopFields(def))

\* a grammar returned for two definitions that refer to each other
C27_Witness ==
  /\ ReturnedBy(1)
  /\ call[1].model = MutualModel
  /\ Len(HelperLines(Grammar(1))) = 2
  /\ \A j \in 1..2 : HelperLines(Grammar(1))[j].body # Placeholder

\* C28: a request that times out is reported by complete() through the
\* timeout error ("timed out after ..."), a connection failure through the
\* "cannot connect" error, so that the two can be told apart.
C28_TimeoutDistinct ==
  \A t \in Threads :
    op[t].name = "complete" /\ sent[t] # <<>> =>
      /\ op[t].reply.kind \in TimeoutExceptions =>
           result[t] = Threw(LlamaCppClientError("timed out"))
      /\ op[t].reply.kind \in TransportErrors \ TimeoutExceptions =>
           result[t] = Threw(LlamaCppClientError("cannot connect"))

\* C29: whenever the construction of StructuredLLM fails with
\* ServerConfigurationError no open connection pool is left behind: no
\* client was created, or the client created for the probe is closed.
C29_NoOpenPoolLeft ==
  \A t \in Threads :
    /\ op[t].name = "StructuredLLM"
    /\ result[t].kind = "raise"
    /\ result[t].err.type = "ServerConfigurationError"
    => client = NoClient \/ client.http = "closed"

(***************************************************************************)
(* CalendarMinuteRateLimiter (library/rate_limiter.py), used by one        *)
(* caller (run_scraper).  Time is the clock of time.time(): it never goes  *)
(* back, it moves on between two calls and between the statements of one   *)
(* call, and time.sleep(s) returns when at least s has passed.             *)
(***************************************************************************)
\* "minute changed -> reset everything"
ResetIfNewMinute(l, minute) ==
  IF minute # l.current_minute
    THEN [l EXCEPT !.current_minute = minute, !.request_count = 0]
    ELSE l

\* "limit reached"
LimitReached(l) == l.request_count >= l.requests_per_minute

\* the limiter after wait_if_needed() read the clock at now and, when it
\* had to sleep, read it again at woke
WaitIfNeeded(l, now, woke) ==
  IF LimitReached(ResetIfNewMinute(l, Minute(now)))
    THEN [ResetIfNewMinute(l, Minute(now)) EXCEPT
            !.current_minute = Minute(woke), !.request_count = 1]
    ELSE [ResetIfNewMinute(l, Minute(now)) EXCEPT !.request_count = @ + 1]

\* the first tick of the minute after the minute of now
NextBoundary(now) == (Minute(now) + 1) * TicksPerMinute

\* CalendarMinuteRateLimiter(requests_per_minute=n)
CalendarMinuteRateLimiter(n) ==
  /\ limiter = NoLimiter
  /\ limiter' = [requests_per_minute |-> n, current_minute |-> Minute(clock),
                 request_count |-> 0]
  /\ UNCHANGED <<clock, calls, gram, client, llm, op, sent, result>>

\* time passes while the caller does something else
Tick ==
  /\ clock < MaxClock
  /\ clock' = clock + 1
  /\ UNCHANGED <<limiter, calls, gram, client, llm, op, sent, result>>

\* wait_if_needed(): the clock is read on entry; when the limit is reached
\* the call sleeps to the next minute boundary or longer and reads the
\* clock again at woke; it returns at exit, when the clock has moved on by
\* at most one tick since it was last read
wait_if_needed(woke, exit) ==
  LET slept == LimitReached(ResetIfNewMinute(limiter, Minute(clock)))
  IN /\ limiter # NoLimiter
     /\ IF slept THEN woke >= NextBoundary(clock) ELSE woke = clock
     /\ exit \in {woke, woke + 1}
     /\ exit <= MaxClock
     /\ limiter' = WaitIfNeeded(limiter, clock, woke)
     /\ clock' = exit
     /\ calls' = [returned |-> [calls.returned EXCEPT ![Minute(exit)] = @ + 1],
                  entry |-> clock, exit |-> exit, limited |-> slept]
     /\ UNCHANGED <<gram, client, llm, op, sent, result>>

NextRate ==
  \/ \E n \in 1..MaxRate : CalendarMinuteRateLimiter(n)
  \/ Tick
  \/ \E woke \in 0..MaxClock, exit \in 0..MaxClock : wait_if_needed(woke, exit)

SpecRate == Init /\ [][NextRate]_vars

\* C30: the limiter bounds the request rate: for requests_per_minute = N
\* >= 1 and any sequence of wait_if_needed() calls of one caller, at most N
\* calls return within the same calendar minute, request_count is between
\* 1 and N after every return, and a call that finds the limit reached
\* returns only after the clock has entered a later calendar minute.
C30_RateBounded ==
  limiter # NoLimiter =>
    /\ \A m \in DOMAIN calls.returned :
         calls.returned[m] <= limiter.requests_per_minute
    /\ calls # NoCalls =>
         /\ limiter.request_count >= 1
         /\ limiter.request_count <= limiter.requests_per_minute
         /\ calls.limited => Minute(calls.exit) > Minute(calls.entry)

====
